---- MODULE Spec2Model ----
(***************************************************************************)
(* TalentScout: resume text extraction, field extraction, anonymization,   *)
(* candidate ids and candidate files, modelled from src/resume_parser.py,  *)
(* src/prompt_manager.py, src/utils.py and src/app.py.                     *)
(*                                                                         *)
(* Python str values are TLA+ strings; a character is a string of length   *)
(* one, read with SubSeq(s, i, i).  A Python dict is a function whose      *)
(* DOMAIN is the set of keys present.                                      *)
(***************************************************************************)
EXTENDS Integers, Sequences, FiniteSets, TLC

VARIABLES
    \* ---- ResumeParser.extract_text_from_pdf (one call in progress)
    pdf_doc,        \* what the two PDF libraries do with the uploaded bytes
    pdf_pc,         \* position in extract_text_from_pdf
    pdf_text,       \* the local variable text
    pdf_i,          \* index of the next page of the running page loop
    pdf_primary,    \* how the PyMuPDF block ended: "pending", "ok", "raised"
    pdf_primary_text, \* text accumulated by PyMuPDF when its block ended without raising
    pdf_secondary,  \* how the pdfplumber block ended: "untried", "running", "ok", "raised"
    pdf_result,     \* the returned string, once pdf_pc = "returned"
    \* ---- ResumeParser field extractors applied to one extracted text
    fld_text,       \* the text handed to the extractors
    fld_phone,      \* what extract_phone returned for it
    fld_tech,       \* what extract_tech_stack returned for it
    fld_years,      \* what extract_years_experience returned for it
    fld_done,       \* the extractors that have run on fld_text
    \* ---- src/app.py: the session and the upload page
    candidate_info, \* st.session_state.candidate_info
    resume_data,    \* what parse_resume returned to the upload page in its last run
    app_errors,     \* the st.error messages of the last run of a page
    app_pc,         \* where the upload page is: "idle", "extract_pdf", "extracted"
    app_text,       \* how the text extraction of parse_resume ended
    app_docx,       \* the DOCX parse_resume is reading, NoDocx when it reads none
    \* ---- PromptManager.categorize_tech_stack applied to one list
    cat_arg,        \* the list as it was when the caller passed it
    cat_stack,      \* the caller's list (the same object) as it is now
    cat_ret,        \* what the call returned
    \* ---- DataPrivacyManager.anonymize_data applied to one profile
    dpm_arg,        \* the dict as it was when the caller passed it
    dpm_data,       \* the caller's dict (the same object) as it is now
    dpm_ret,        \* how the call ended and what it returned
    dpm_log,        \* the anonymize_data calls made so far: argument, instant, outcome
    \* ---- candidate ids and the candidates directory
    elapsed,        \* half seconds the UTC clock has advanced
    issued,         \* the ids generate_candidate_id has returned, with email and instant
    files,          \* the candidates directory: path -> what the file holds
    saves,          \* the number of save calls made so far
    st_ret,         \* how the last call on the store ended
    \* ---- utils.query_model applied to one prompt
    qm_prompt,      \* the prompt of the call
    qm_backends,    \* how _query_ollama and _query_huggingface end when called
    qm_ret,         \* how query_model ended, with the backend calls it made in order
    \* ---- src/app.py: the chat page
    input_method,          \* st.session_state.input_method
    conversation_started,  \* st.session_state.conversation_started
    messages,              \* st.session_state.messages
    sentiment_history,     \* st.session_state.analyzer.sentiment_history (the texts)
    queries,               \* the number of query_model calls made so far
    chat_prompt,           \* what the chat input held in the last run, None when nothing
    chat_response,         \* what query_model returned to the chat page in the last run
    run_end                \* how the last run ended: "ok", "stopped" or an exception

pdfVars == <<pdf_doc, pdf_pc, pdf_text, pdf_i, pdf_primary, pdf_primary_text,
             pdf_secondary, pdf_result>>

fldVars == <<fld_text, fld_phone, fld_tech, fld_years, fld_done>>

dpmVars == <<dpm_arg, dpm_data, dpm_ret, dpm_log>>

catVars == <<cat_arg, cat_stack, cat_ret>>

appVars == <<candidate_info, resume_data, app_errors, app_pc, app_text, app_docx>>

storeVars == <<elapsed, issued, files, saves, st_ret>>

qmVars == <<qm_prompt, qm_backends, qm_ret>>

chatVars == <<input_method, conversation_started, messages, sentiment_history, queries,
              chat_prompt, chat_response, run_end>>

vars == <<pdfVars, fldVars, catVars, dpmVars, storeVars, appVars, qmVars, chatVars>>

NotPdf == <<fldVars, catVars, dpmVars, storeVars, appVars, qmVars, chatVars>>

NotFld == <<pdfVars, catVars, dpmVars, storeVars, appVars, qmVars, chatVars>>

NotDpm == <<pdfVars, fldVars, catVars, storeVars, appVars, qmVars, chatVars>>

NotStore == <<pdfVars, fldVars, catVars, dpmVars, appVars, qmVars, chatVars>>

NotCat == <<pdfVars, fldVars, dpmVars, storeVars, appVars, qmVars, chatVars>>

NotApp == <<pdfVars, fldVars, catVars, dpmVars, storeVars, qmVars>>

(***************************************************************************)
(* Bounds of the model.                                                    *)
(***************************************************************************)
MaxPages == 2

\* the texts handed to the field extractors are made of up to MaxSegs segments
MaxSegs == 2

\* half seconds the clock may advance
MaxTicks == 3

\* distinct (email, instant, id) records generate_candidate_id may leave
MaxIds == 3

\* save calls on the candidates directory
MaxSaves == 2

\* entries of a list handed to categorize_tech_stack
MaxTechs == 2

\* anonymize_data calls made one after another
MaxCalls == 3

\* messages of a conversation
MaxMessages == 6

\* entries of sentiment_history
MaxHistory == 3

\* clicks on Start Screening
MaxStarts == 1

(***************************************************************************)
(* Python str helpers.                                                     *)
(***************************************************************************)
\* The value None where a str is expected (no modelled input is this text).
None == "<None>"

\* the value None where an int is expected (every modelled int is >= 0)
NoneInt == -1

Char(s, i) == SubSeq(s, i, i)

Whitespace == {" ", "\t", "\n", "\r", "\f"}

Digits == {"0", "1", "2", "3", "4", "5", "6", "7", "8", "9"}

\* the indices of s that hold a character outside cs
NotIn(s, cs) == {i \in 1..Len(s) : Char(s, i) \notin cs}

Least(S) == CHOOSE i \in S : \A j \in S : i <= j

Greatest(S) == CHOOSE i \in S : \A j \in S : i >= j

\* str.strip(): from the first to the last character that is not whitespace
Strip(s) ==
    IF NotIn(s, Whitespace) = {} THEN ""
    ELSE SubSeq(s, Least(NotIn(s, Whitespace)), Greatest(NotIn(s, Whitespace)))

(***************************************************************************)
(* ResumeParser.extract_text_from_pdf                                      *)
(*                                                                         *)
(* A document is described by what each library does with it: the text of  *)
(* each page and where, if anywhere, the library raises.  fail = -1: the   *)
(* open call raises; fail = 0: nothing raises; fail = i >= 1: the text     *)
(* call of page i raises.  pdfplumber's extract_text may return None.      *)
(***************************************************************************)
FitzPageTexts == {"", " \n", "Ann"}

PlumberPageTexts == {None, " ", "Ann"}

PdfDocs ==
    UNION { [ fitz_pages    : [1..n -> FitzPageTexts],
              fitz_fail     : -1..n,
              plumber_pages : [1..n -> PlumberPageTexts],
              plumber_fail  : -1..n ] : n \in 1..MaxPages }

NoDoc == [ fitz_pages |-> <<>>, fitz_fail |-> 0, plumber_pages |-> <<>>, plumber_fail |-> 0 ]

\* if not text.strip():
NeedsFallbackOnlyEmpty(text) == text = ""

NeedsFallbackAlways(text) == TRUE

NeedsFallback(text) == Strip(text) = ""

\* page.extract_text() or ""
OrEmpty(v) == IF v = None \/ v = "" THEN "" ELSE v

\* extract_text_from_pdf(file_content): text = ""
PdfCall ==
    /\ pdf_pc = "idle"
    /\ pdf_doc' \in PdfDocs
    /\ pdf_text' = ""
    /\ pdf_pc' = "fitz_open"
    /\ pdf_i' = 0
    /\ pdf_primary' = "pending"
    /\ pdf_primary_text' = ""
    /\ pdf_secondary' = "untried"
    /\ pdf_result' = ""
    /\ UNCHANGED NotPdf


\* doc = fitz.open(...); on an exception: text = ""
FitzOpen ==
    /\ pdf_pc = "fitz_open"
    /\ IF pdf_doc.fitz_fail = -1
       THEN /\ pdf_text' = ""
            /\ pdf_primary' = "raised"
            /\ pdf_pc' = "check"
            /\ pdf_i' = pdf_i
       ELSE /\ pdf_pc' = "fitz_pages"
            /\ pdf_i' = 1
            /\ UNCHANGED <<pdf_text, pdf_primary>>
    /\ UNCHANGED <<pdf_doc, pdf_primary_text, pdf_secondary, pdf_result>>
    /\ UNCHANGED NotPdf


\* for page in doc: text += page.get_text(); doc.close(); on an exception: text = ""
FitzPage ==
    /\ pdf_pc = "fitz_pages"
    /\ IF pdf_i > Len(pdf_doc.fitz_pages)
       THEN /\ pdf_primary' = "ok"
            /\ pdf_primary_text' = pdf_text
            /\ pdf_pc' = "check"
            /\ UNCHANGED <<pdf_text, pdf_i>>
       ELSE IF pdf_doc.fitz_fail = pdf_i
       THEN /\ pdf_text' = ""
            /\ pdf_primary' = "raised"
            /\ pdf_pc' = "check"
            /\ UNCHANGED <<pdf_primary_text, pdf_i>>
       ELSE /\ pdf_text' = pdf_text \o pdf_doc.fitz_pages[pdf_i]
            /\ pdf_i' = pdf_i + 1
            /\ UNCHANGED <<pdf_primary, pdf_primary_text, pdf_pc>>
    /\ UNCHANGED <<pdf_doc, pdf_secondary, pdf_result>>
    /\ UNCHANGED NotPdf


\* if not text.strip(): try pdfplumber; else return text
PdfCheck ==
    /\ pdf_pc = "check"
    /\ IF NeedsFallback(pdf_text)
       THEN /\ pdf_pc' = "plumber_open"
            /\ pdf_secondary' = "running"
       ELSE /\ pdf_pc' = "return"
            /\ UNCHANGED pdf_secondary
    /\ UNCHANGED <<pdf_doc, pdf_text, pdf_i, pdf_primary, pdf_primary_text, pdf_result>>
    /\ UNCHANGED NotPdf


\* with pdfplumber.open(...) as pdf; on an exception: raise Exception("Failed to extract text from PDF")
PlumberOpen ==
    /\ pdf_pc = "plumber_open"
    /\ IF pdf_doc.plumber_fail = -1
       THEN /\ pdf_secondary' = "raised"
            /\ pdf_pc' = "raised"
            /\ pdf_i' = pdf_i
       ELSE /\ pdf_pc' = "plumber_pages"
            /\ pdf_i' = 1
            /\ UNCHANGED pdf_secondary
    /\ UNCHANGED <<pdf_doc, pdf_text, pdf_primary, pdf_primary_text, pdf_result>>
    /\ UNCHANGED NotPdf


\* for page in pdf.pages: text += page.extract_text() or ""
PlumberPage ==
    /\ pdf_pc = "plumber_pages"
    /\ IF pdf_i > Len(pdf_doc.plumber_pages)
       THEN /\ pdf_secondary' = "ok"
            /\ pdf_pc' = "return"
            /\ UNCHANGED <<pdf_text, pdf_i>>
       ELSE IF pdf_doc.plumber_fail = pdf_i
       THEN /\ pdf_secondary' = "raised"
            /\ pdf_pc' = "raised"
            /\ UNCHANGED <<pdf_text, pdf_i>>
       ELSE /\ pdf_text' = pdf_text \o OrEmpty(pdf_doc.plumber_pages[pdf_i])
            /\ pdf_i' = pdf_i + 1
            /\ UNCHANGED <<pdf_secondary, pdf_pc>>
    /\ UNCHANGED <<pdf_doc, pdf_primary, pdf_primary_text, pdf_result>>
    /\ UNCHANGED NotPdf


\* return text
PdfReturn ==
    /\ pdf_pc = "return"
    /\ pdf_pc' = "returned"
    /\ pdf_result' = pdf_text
    /\ UNCHANGED <<pdf_doc, pdf_text, pdf_i, pdf_primary, pdf_primary_text, pdf_secondary>>
    /\ UNCHANGED NotPdf


\* the caller takes the result or the exception; the parser is ready for the next call
PdfDone ==
    /\ pdf_pc \in {"returned", "raised"}
    /\ pdf_pc' = "idle"
    /\ pdf_doc' = NoDoc
    /\ pdf_text' = ""
    /\ pdf_i' = 0
    /\ pdf_primary' = "pending"
    /\ pdf_primary_text' = ""
    /\ pdf_secondary' = "untried"
    /\ pdf_result' = ""
    /\ UNCHANGED NotPdf



(***************************************************************************)
(* The regular expressions of the field extractors, as re.search runs them *)
(* (src/resume_parser.py).  A match is [start, stop): stop = 0 is no match.*)
(***************************************************************************)
Letters ==
    {"a", "b", "c", "d", "e", "f", "g", "h", "i", "j", "k", "l", "m",
     "n", "o", "p", "q", "r", "s", "t", "u", "v", "w", "x", "y", "z",
     "A", "B", "C", "D", "E", "F", "G", "H", "I", "J", "K", "L", "M",
     "N", "O", "P", "Q", "R", "S", "T", "U", "V", "W", "X", "Y", "Z"}

\* \w
WordChars == Letters \cup Digits \cup {"_"}

IsWordAt(s, i) == i >= 1 /\ i <= Len(s) /\ Char(s, i) \in WordChars

\* \b between the characters i and i + 1 of s
Boundary(s, i) == IsWordAt(s, i) # IsWordAt(s, i + 1)

\* \d{k} at i
DigitsAt(s, i, k) ==
    /\ i + k - 1 <= Len(s)
    /\ \A j \in i..(i + k - 1) : Char(s, j) \in Digits

\* [-.]? at i, followed by \d: the separator is taken exactly when it is there
SepLen(s, i) == IF i <= Len(s) /\ Char(s, i) \in {"-", "."} THEN 1 ELSE 0

\* \s* at i, followed by \d: all the whitespace is taken
RECURSIVE SkipSpace(_, _)
SkipSpace(s, i) ==
    IF i <= Len(s) /\ Char(s, i) \in Whitespace
    THEN SkipSpace(s, i + 1)
    ELSE i

\* \d{3}[-.]?\d{4}\b at i
Tail7(s, i) ==
    LET b == i + 3 + SepLen(s, i + 3)
    IN  IF DigitsAt(s, i, 3) /\ DigitsAt(s, b, 4) /\ Boundary(s, b + 3)
        THEN b + 4
        ELSE 0

\* \d{3}[-.]?\d{3}[-.]?\d{4}\b at i
Tail10(s, i) ==
    IF DigitsAt(s, i, 3) THEN Tail7(s, i + 3 + SepLen(s, i + 3)) ELSE 0

\* r'\b\d{3}[-.]?\d{3}[-.]?\d{4}\b' at i
PlainAt(s, i) == IF Boundary(s, i - 1) THEN Tail10(s, i) ELSE 0

\* \d{k}[-.]? then the ten-digit tail, for the \d{1,3} of the second pattern
IntlWith(s, i, k) ==
    IF DigitsAt(s, i + 1, k)
    THEN Tail10(s, i + 1 + k + SepLen(s, i + 1 + k))
    ELSE 0

\* r'\+\d{1,3}[-.]?\d{3}[-.]?\d{3}[-.]?\d{4}\b' at i: \d{1,3} is greedy and backtracks
IntlAt(s, i) ==
    IF i <= Len(s) /\ Char(s, i) = "+"
    THEN IF IntlWith(s, i, 3) # 0 THEN IntlWith(s, i, 3)
         ELSE IF IntlWith(s, i, 2) # 0 THEN IntlWith(s, i, 2)
         ELSE IntlWith(s, i, 1)
    ELSE 0

\* r'\(\d{3}\)\s*\d{3}[-.]?\d{4}\b' at i
ParenAt(s, i) ==
    IF /\ i + 4 <= Len(s)
       /\ Char(s, i) = "("
       /\ DigitsAt(s, i + 1, 3)
       /\ Char(s, i + 4) = ")"
    THEN Tail7(s, SkipSpace(s, i + 5))
    ELSE 0

\* phone_patterns, in the order of the list
phone_patterns == <<"plain", "intl", "paren">>

PhoneMatchAt(pattern, s, i) ==
    CASE pattern = "plain" -> PlainAt(s, i)
      [] pattern = "intl"  -> IntlAt(s, i)
      [] pattern = "paren" -> ParenAt(s, i)

NoMatch == [start |-> 0, stop |-> 0]

\* re.search(pattern, text): the match at the leftmost position that has one
PhoneSearch(pattern, s) ==
    LET starts == {i \in 1..Len(s) : PhoneMatchAt(pattern, s, i) # 0}
    IN  IF starts = {} THEN NoMatch
        ELSE LET i == CHOOSE k \in starts : \A j \in starts : k <= j
             IN  [start |-> i, stop |-> PhoneMatchAt(pattern, s, i)]

\* match.group(0)
Group0(s, m) == SubSeq(s, m.start, m.stop - 1)

RECURSIVE FirstPhoneMatch(_, _)
FirstPhoneMatch(patterns, text) ==
    IF patterns = <<>> THEN None
    ELSE LET m == PhoneSearch(Head(patterns), text)
         IN  IF m # NoMatch THEN Group0(text, m)
             ELSE FirstPhoneMatch(Tail(patterns), text)

\* a plausible slip: the match that starts leftmost in the text wins, whatever its pattern
extract_phone_leftmost(text) ==
    LET ms == {m \in {PhoneSearch(phone_patterns[k], text) : k \in 1..Len(phone_patterns)} : m # NoMatch}
    IN  IF ms = {} THEN None
        ELSE Group0(text, CHOOSE m \in ms : \A o \in ms : m.start <= o.start)

\* ResumeParser.extract_phone
extract_phone(text) == FirstPhoneMatch(phone_patterns, text)

(***************************************************************************)
(* The field extractors run on a text: SpecFields draws the text and       *)
(* applies them.                                                           *)
(***************************************************************************)
Segments ==
    {"123-456-7890", "(987) 654-3210 ", "+15551234567", "+44.207.123.4567",
     "(987)654.3210x", " call ", "5551234"}

RECURSIVE TextsOf(_)
TextsOf(n) ==
    IF n = 0 THEN {""}
    ELSE LET shorter == TextsOf(n - 1)
         IN  shorter \cup {t \o g : t \in shorter, g \in Segments}

Texts == TextsOf(MaxSegs)

FldInit ==
    /\ fld_text \in Texts
    /\ fld_phone = None
    /\ fld_tech = <<>>
    /\ fld_years = NoneInt
    /\ fld_done = {}

\* phone = parser.extract_phone(text)
ExtractPhone ==
    /\ "phone" \notin fld_done
    /\ fld_phone' = extract_phone(fld_text)
    /\ fld_done' = fld_done \cup {"phone"}
    /\ UNCHANGED <<fld_text, fld_tech, fld_years>>
    /\ UNCHANGED NotFld


(***************************************************************************)
(* More Python str helpers.                                                *)
(***************************************************************************)
Prefix(s, n) == SubSeq(s, 1, n)

\* the least index of s from start on whose character is in cs, or 0
FindFrom(s, cs, start) ==
    IF {i \in start..Len(s) : Char(s, i) \in cs} = {} THEN 0
    ELSE Least({i \in start..Len(s) : Char(s, i) \in cs})

\* the least index of s from start on whose character is not in cs, or 0
FindNotFrom(s, cs, start) ==
    IF {i \in start..Len(s) : Char(s, i) \notin cs} = {} THEN 0
    ELSE Least({i \in start..Len(s) : Char(s, i) \notin cs})

\* s[start - 1:].split(sep), sep one character
RECURSIVE SplitFrom(_, _, _)
SplitFrom(s, sep, start) ==
    IF FindFrom(s, {sep}, start) = 0 THEN <<SubSeq(s, start, Len(s))>>
    ELSE <<SubSeq(s, start, FindFrom(s, {sep}, start) - 1)>>
             \o SplitFrom(s, sep, FindFrom(s, {sep}, start) + 1)

\* s.split(sep)
Split(s, sep) == SplitFrom(s, sep, 1)

\* the token of s that starts at a: up to the next whitespace or the end
TokenEnd(s, a) ==
    IF FindFrom(s, Whitespace, a) = 0 THEN Len(s) ELSE FindFrom(s, Whitespace, a) - 1

\* s[start - 1:].split(): the runs of non-whitespace characters
RECURSIVE SplitWsFrom(_, _)
SplitWsFrom(s, start) ==
    IF FindNotFrom(s, Whitespace, start) = 0 THEN <<>>
    ELSE <<SubSeq(s, FindNotFrom(s, Whitespace, start),
                  TokenEnd(s, FindNotFrom(s, Whitespace, start)))>>
             \o SplitWsFrom(s, TokenEnd(s, FindNotFrom(s, Whitespace, start)) + 1)

\* s.split()
SplitWs(s) == SplitWsFrom(s, 1)

\* ' '.join(parts[i - 1:])
RECURSIVE JoinSpaceFrom(_, _)
JoinSpaceFrom(parts, i) ==
    IF i > Len(parts) THEN ""
    ELSE IF i = Len(parts) THEN parts[i]
    ELSE parts[i] \o " " \o JoinSpaceFrom(parts, i + 1)

\* ' '.join(parts)
JoinSpace(parts) == JoinSpaceFrom(parts, 1)

RECURSIVE OnlyDigitsFrom(_, _)
OnlyDigitsFrom(s, i) ==
    IF i > Len(s) THEN ""
    ELSE (IF Char(s, i) \in Digits THEN Char(s, i) ELSE "") \o OnlyDigitsFrom(s, i + 1)

\* re.sub(r'\D', '', s)
OnlyDigits(s) == OnlyDigitsFrom(s, 1)

RECURSIVE ReplaceFrom(_, _, _, _)
ReplaceFrom(s, a, b, i) ==
    IF i > Len(s) THEN ""
    ELSE (IF Char(s, i) = a THEN b ELSE Char(s, i)) \o ReplaceFrom(s, a, b, i + 1)

\* s.replace(a, b), a and b one character each
Replace(s, a, b) == ReplaceFrom(s, a, b, 1)

DigitValue(c) == CHOOSE d \in 0..9 : ToString(d) = c

RECURSIVE ToNatUpTo(_, _)
ToNatUpTo(s, n) ==
    IF n = 0 THEN 0 ELSE 10 * ToNatUpTo(s, n - 1) + DigitValue(Char(s, n))

\* int(s) of a string of decimal digits
ToNat(s) == ToNatUpTo(s, Len(s))

RECURSIVE Zeros(_)
Zeros(k) == IF k <= 0 THEN "" ELSE "0" \o Zeros(k - 1)

\* str(n).zfill(w) for n >= 0
Pad(n, w) == Zeros(w - Len(ToString(n))) \o ToString(n)

HexDigits == Digits \cup {"a", "b", "c", "d", "e", "f"}

AllIn(s, cs) == \A i \in 1..Len(s) : Char(s, i) \in cs

\* the first 8 characters of hashlib.sha256(s.encode()).hexdigest(), for the
\* strings the model hashes
Sha256Hex8(s) ==
    CASE s = ""            -> "e3b0c442"
      [] s = "ann"         -> "49915e0d"
      [] s = "bob"         -> "81b637d8"
      [] s = "ann@x.io"    -> "31122705"
      [] s = "bob@x.io"    -> "cb6a7c1e"
      [] s = "5551234567"  -> "3c95277d"
      [] s = "15551234567" -> "d6736136"
      [] s = "9876543210"  -> "7619ee8c"
      [] s = "B"           -> "df7e70e5"
      [] s = "Madonna"     -> "199e3918"
      [] s = "Cher"        -> "04a2977c"
      [] s = " Cher "      -> "6e2b5dc5"
      [] s = "5551234"     -> "087b70dc"
      [] s = "2071234567"  -> "c4322f32"

\* a call returns a value or raises
Returned(v) == [status |-> "ok", value |-> v]

Raised(e) == [status |-> "raised", value |-> e]

\* d[k] = v on a dict
DictSet(d, k, v) == (k :> v) @@ d

(***************************************************************************)
(* ResumeParser.extract_tech_stack (src/resume_parser.py): case folding,   *)
(* the substring test and the order sorted() puts str values in.           *)
(***************************************************************************)
UpperAlphabet == "ABCDEFGHIJKLMNOPQRSTUVWXYZ"

LowerAlphabet == "abcdefghijklmnopqrstuvwxyz"

\* the position of the character c in alphabet, or 0
IndexIn(alphabet, c) ==
    IF \E i \in 1..Len(alphabet) : Char(alphabet, i) = c
    THEN CHOOSE i \in 1..Len(alphabet) : Char(alphabet, i) = c
    ELSE 0

LowerChar(c) ==
    IF IndexIn(UpperAlphabet, c) = 0 THEN c
    ELSE Char(LowerAlphabet, IndexIn(UpperAlphabet, c))

RECURSIVE LowerFrom(_, _)
LowerFrom(s, i) ==
    IF i > Len(s) THEN "" ELSE LowerChar(Char(s, i)) \o LowerFrom(s, i + 1)

\* s.lower()
Lower(s) == LowerFrom(s, 1)

\* a in b, for str
Contains(b, a) == \E i \in 0..(Len(b) - Len(a)) : SubSeq(b, i + 1, i + Len(a)) = a

\* the characters of the modelled strings in ascending code point order
CodePoints ==
    " #%+,-./0123456789:@ABCDEFGHIJKLMNOPQRSTUVWXYZ_abcdefghijklmnopqrstuvwxyz"

\* a < b, for str: the first differing character decides, a proper prefix is less
RECURSIVE StrLessFrom(_, _, _)
StrLessFrom(a, b, i) ==
    IF i > Len(b) THEN FALSE
    ELSE IF i > Len(a) THEN TRUE
    ELSE IF Char(a, i) = Char(b, i) THEN StrLessFrom(a, b, i + 1)
    ELSE IndexIn(CodePoints, Char(a, i)) < IndexIn(CodePoints, Char(b, i))

StrLess(a, b) == StrLessFrom(a, b, 1)

\* sorted(list(S)) for a set of str
Sorted(S) ==
    [i \in 1..Cardinality(S) |->
        CHOOSE x \in S : Cardinality({y \in S : StrLess(y, x)}) = i - 1]

\* self.tech_keywords, in the order the dict literal lists the categories
tech_keywords ==
    << [category |-> "languages",
        keywords |-> <<"python", "java", "javascript", "typescript", "c++", "c#",
                       "ruby", "php", "swift", "kotlin", "go", "rust">>],
       [category |-> "frameworks",
        keywords |-> <<"django", "flask", "spring", "react", "angular", "vue",
                       "express", "rails", "laravel", "asp.net">>],
       [category |-> "databases",
        keywords |-> <<"mysql", "postgresql", "mongodb", "redis", "oracle",
                       "sql server", "cassandra">>],
       [category |-> "cloud",
        keywords |-> <<"aws", "azure", "gcp", "heroku", "digitalocean">>],
       [category |-> "tools",
        keywords |-> <<"docker", "kubernetes", "jenkins", "git", "jira", "confluence">>],
       [category |-> "ai_ml",
        keywords |-> <<"tensorflow", "pytorch", "scikit-learn", "pandas", "numpy",
                       "keras">>] >>

\* the loops of extract_tech_stack: found_tech.add(tech) for every tech in text_lower
found_tech(text_lower) ==
    UNION { { tech_keywords[c].keywords[k] :
                k \in {j \in 1..Len(tech_keywords[c].keywords) :
                          Contains(text_lower, tech_keywords[c].keywords[j])} } :
            c \in 1..Len(tech_keywords) }

\* a plausible slip: the text is searched as written, not lowercased
extract_tech_stack_cased(text) == Sorted(found_tech(text))

\* ResumeParser.extract_tech_stack
extract_tech_stack(text) == Sorted(found_tech(Lower(text)))

\* the texts extract_tech_stack is run on: up to MaxSegs of these segments
TechSegments ==
    {"I use Python and react daily", "JavaScript ", "Django", " C++/C# ",
     "git", "SQL Server ", "REACT, "}

RECURSIVE TechTextsOf(_)
TechTextsOf(n) ==
    IF n = 0 THEN {""}
    ELSE LET shorter == TechTextsOf(n - 1)
         IN  shorter \cup {t \o g : t \in shorter, g \in TechSegments}

TechTexts == TechTextsOf(MaxSegs)

TechInit ==
    /\ fld_text \in TechTexts
    /\ fld_phone = None
    /\ fld_tech = <<>>
    /\ fld_years = NoneInt
    /\ fld_done = {}

\* tech_stack = parser.extract_tech_stack(text)
ExtractTechStack ==
    /\ "tech_stack" \notin fld_done
    /\ fld_tech' = extract_tech_stack(fld_text)
    /\ fld_done' = fld_done \cup {"tech_stack"}
    /\ UNCHANGED <<fld_text, fld_phone, fld_years>>
    /\ UNCHANGED NotFld

(***************************************************************************)
(* ResumeParser.extract_email and extract_years_experience                 *)
(* (src/resume_parser.py), as re.search runs their patterns.               *)
(***************************************************************************)
\* [A-Za-z0-9._%+-]
EmailLocalChars == Letters \cup Digits \cup {".", "_", "%", "+", "-"}

\* [A-Za-z0-9.-]
EmailDomainChars == Letters \cup Digits \cup {".", "-"}

\* [A-Z|a-z]: the bar is a member of the class
EmailTldChars == Letters \cup {"|"}

\* the last index of the run of cs characters that starts at a, a - 1 when
\* the character at a is not in cs
RunEnd(s, cs, a) ==
    IF a > Len(s) THEN a - 1
    ELSE IF FindNotFrom(s, cs, a) = 0 THEN Len(s)
    ELSE FindNotFrom(s, cs, a) - 1

\* the dots of the domain run after the @ at index at that \.[A-Z|a-z]{2,}\b
\* can start from: at least one domain character stands before the dot
EmailDots(s, at) ==
    {p \in (at + 2)..RunEnd(s, EmailDomainChars, at + 1) :
        /\ Char(s, p) = "."
        /\ \E q \in (p + 2)..RunEnd(s, EmailTldChars, p + 1) : Boundary(s, q)}

\* [A-Za-z0-9.-]+\.[A-Z|a-z]{2,}\b after the @: both repetitions are greedy, so
\* the last dot that works is taken, and after it the longest run ending at a \b
EmailStop(s, at) ==
    IF EmailDots(s, at) = {} THEN 0
    ELSE 1 + Greatest({q \in (Greatest(EmailDots(s, at)) + 2)
                               ..RunEnd(s, EmailTldChars, Greatest(EmailDots(s, at)) + 1) :
                          Boundary(s, q)})

\* email_pattern at i: the run of local characters from i has to end at an @
EmailAt(s, i) ==
    IF /\ Boundary(s, i - 1)
       /\ RunEnd(s, EmailLocalChars, i) >= i
       /\ RunEnd(s, EmailLocalChars, i) < Len(s)
       /\ Char(s, RunEnd(s, EmailLocalChars, i) + 1) = "@"
    THEN EmailStop(s, RunEnd(s, EmailLocalChars, i) + 1)
    ELSE 0

\* ResumeParser.extract_email
extract_email(text) ==
    IF {i \in 1..Len(text) : EmailAt(text, i) # 0} = {} THEN None
    ELSE SubSeq(text, Least({i \in 1..Len(text) : EmailAt(text, i) # 0}),
                EmailAt(text, Least({i \in 1..Len(text) : EmailAt(text, i) # 0})) - 1)

\* s[a - 1:].startswith(w)
StartsWith(s, a, w) ==
    /\ a >= 1
    /\ a + Len(w) - 1 <= Len(s)
    /\ SubSeq(s, a, a + Len(w) - 1) = w

\* (?:w)? at a: w is taken exactly when it is there
Skip(s, a, w) == IF StartsWith(s, a, w) THEN a + Len(w) ELSE a

\* after \s* at a
AfterSpace(s, a) == SkipSpace(s, a)

\* \+?\s*(?:years?|yrs?) at a: the index after it, or 0
YearsUnitAt(s, a) ==
    IF StartsWith(s, AfterSpace(s, Skip(s, a, "+")), "year")
    THEN Skip(s, AfterSpace(s, Skip(s, a, "+")) + 4, "s")
    ELSE IF StartsWith(s, AfterSpace(s, Skip(s, a, "+")), "yr")
    THEN Skip(s, AfterSpace(s, Skip(s, a, "+")) + 2, "s")
    ELSE 0

\* (\d+)\+?\s*(?:years?|yrs?) at i: the index after it, or 0
YearsAt(s, i) ==
    IF RunEnd(s, Digits, i) >= i THEN YearsUnitAt(s, RunEnd(s, Digits, i) + 1) ELSE 0

\* exp_patterns, in the order of the list
exp_patterns == <<"years_of_experience", "experience_colon", "years_in_the_field">>

\* r'(\d+)\+?\s*(?:years?|yrs?)\s*(?:of)?\s*experience' at i
YearsOfExperienceAt(s, i) ==
    /\ YearsAt(s, i) # 0
    /\ StartsWith(s, AfterSpace(s, Skip(s, AfterSpace(s, YearsAt(s, i)), "of")), "experience")

\* r'experience:\s*(\d+)\+?\s*(?:years?|yrs?)' at i
ExperienceColonAt(s, i) ==
    /\ StartsWith(s, i, "experience:")
    /\ YearsAt(s, AfterSpace(s, i + 11)) # 0

\* r'(\d+)\+?\s*(?:years?|yrs?)\s*(?:in)?\s*the\s*field' at i
YearsInTheFieldAt(s, i) ==
    /\ YearsAt(s, i) # 0
    /\ StartsWith(s, AfterSpace(s, Skip(s, AfterSpace(s, YearsAt(s, i)), "in")), "the")
    /\ StartsWith(s, AfterSpace(s, AfterSpace(s, Skip(s, AfterSpace(s, YearsAt(s, i)), "in")) + 3),
                  "field")

ExpMatchAt(pattern, s, i) ==
    CASE pattern = "years_of_experience" -> YearsOfExperienceAt(s, i)
      [] pattern = "experience_colon"    -> ExperienceColonAt(s, i)
      [] pattern = "years_in_the_field"  -> YearsInTheFieldAt(s, i)

\* where group 1 of the pattern starts when the match starts at i
ExpGroup1Start(pattern, s, i) ==
    IF pattern = "experience_colon" THEN AfterSpace(s, i + 11) ELSE i

\* re.search(pattern, s).group(1): the digits of the leftmost match, or None
ExpSearch(pattern, s) ==
    IF {i \in 1..Len(s) : ExpMatchAt(pattern, s, i)} = {} THEN None
    ELSE SubSeq(s, ExpGroup1Start(pattern, s, Least({i \in 1..Len(s) : ExpMatchAt(pattern, s, i)})),
                RunEnd(s, Digits,
                       ExpGroup1Start(pattern, s,
                                      Least({i \in 1..Len(s) : ExpMatchAt(pattern, s, i)}))))

\* the loop of extract_years_experience from the k-th pattern on: a match whose
\* group int() cannot parse (ValueError) is passed over
RECURSIVE FirstExpMatch(_, _)
FirstExpMatch(k, text_lower) ==
    IF k > Len(exp_patterns) THEN NoneInt
    ELSE IF /\ ExpSearch(exp_patterns[k], text_lower) # None
            /\ AllIn(ExpSearch(exp_patterns[k], text_lower), Digits)
    THEN ToNat(ExpSearch(exp_patterns[k], text_lower))
    ELSE FirstExpMatch(k + 1, text_lower)

\* the same loop over reversed(exp_patterns)
RECURSIVE LastExpMatch(_, _)
LastExpMatch(k, text_lower) ==
    IF k < 1 THEN NoneInt
    ELSE IF ExpSearch(exp_patterns[k], text_lower) # None
    THEN ToNat(ExpSearch(exp_patterns[k], text_lower))
    ELSE LastExpMatch(k - 1, text_lower)

extract_years_experience_reversed(text) == LastExpMatch(Len(exp_patterns), Lower(text))

\* ResumeParser.extract_years_experience
extract_years_experience(text) == FirstExpMatch(1, Lower(text))

\* the texts extract_years_experience is run on: up to MaxSegs of these segments
YearsSegments ==
    {"5+ years of experience", "10 yrs in the field", "Experience: 3 yrs, ",
     "7 YEARS EXPERIENCE ", " since 2019 ", "12 years ", "2 yr the field"}

RECURSIVE YearsTextsOf(_)
YearsTextsOf(n) ==
    IF n = 0 THEN {""}
    ELSE LET shorter == YearsTextsOf(n - 1)
         IN  shorter \cup {t \o g : t \in shorter, g \in YearsSegments}

YearsTexts == YearsTextsOf(MaxSegs)

YearsInit ==
    /\ fld_text \in YearsTexts
    /\ fld_phone = None
    /\ fld_tech = <<>>
    /\ fld_years = NoneInt
    /\ fld_done = {}

\* years_experience = parser.extract_years_experience(text)
ExtractYears ==
    /\ "years_experience" \notin fld_done
    /\ fld_years' = extract_years_experience(fld_text)
    /\ fld_done' = fld_done \cup {"years_experience"}
    /\ UNCHANGED <<fld_text, fld_phone, fld_tech>>
    /\ UNCHANGED NotFld

(***************************************************************************)
(* ResumeParser.parse_resume and the pages of src/app.py that build        *)
(* st.session_state.candidate_info: the resume upload page and the manual  *)
(* form.  One run of the upload page is: the text extraction, the field    *)
(* extraction, candidate_info.update and the review widgets.               *)
(***************************************************************************)
\* "\n".join(paragraphs[i - 1:])
RECURSIVE JoinLinesFrom(_, _)
JoinLinesFrom(paragraphs, i) ==
    IF i > Len(paragraphs) THEN ""
    ELSE IF i = Len(paragraphs) THEN paragraphs[i]
    ELSE paragraphs[i] \o "\n" \o JoinLinesFrom(paragraphs, i + 1)

\* "\n".join(paragraphs[:n])
RECURSIVE JoinLinesUpTo(_, _)
JoinLinesUpTo(paragraphs, n) ==
    IF n <= 0 THEN ""
    ELSE IF n = 1 THEN paragraphs[1]
    ELSE JoinLinesUpTo(paragraphs, n - 1) \o "\n" \o paragraphs[n]

\* a plausible slip: the paragraphs read before the failure are returned
extract_text_from_docx_partial(d) ==
    IF d.fail = -1 THEN Raised("Failed to extract text from DOCX")
    ELSE IF d.fail = 0 THEN Returned(JoinLinesFrom(d.paragraphs, 1))
    ELSE Returned(JoinLinesUpTo(d.paragraphs, d.fail - 1))

\* extract_text_from_docx: Document() and every paragraph.text are inside the
\* try; whatever they raise is raised again as "Failed to extract text from DOCX"
extract_text_from_docx(d) ==
    IF d.fail # 0 THEN Raised("Failed to extract text from DOCX")
    ELSE Returned(JoinLinesFrom(d.paragraphs, 1))

\* a plausible slip: a failed extraction is treated as an empty document
parse_resume_lenient(extracted) ==
    Returned([email            |-> None,
              phone            |-> None,
              years_experience |-> NoneInt,
              tech_stack       |-> <<>>])

\* parse_resume once the text extraction has ended, with the text or by raising:
\* every exception is raised again as "Failed to parse resume: ..."
parse_resume(extracted) ==
    IF extracted.status = "raised"
    THEN Raised("Failed to parse resume: " \o extracted.value)
    ELSE Returned([email            |-> extract_email(extracted.value),
                   phone            |-> extract_phone(extracted.value),
                   years_experience |-> extract_years_experience(extracted.value),
                   tech_stack       |-> extract_tech_stack(extracted.value)])

\* the documents uploaded: one page, read by both libraries
ResumeFull == "Ann Lee\nann@x.io\n555-123-4567\n5 years of experience\nPython, React"

ResumeBare == "Ann Lee\nJava developer"

UploadDocs ==
    [ fitz_pages    : [1..1 -> {"", ResumeFull, ResumeBare}],
      fitz_fail     : -1..1,
      plumber_pages : [1..1 -> {None, ResumeFull}],
      plumber_fail  : -1..1 ]

\* a DOCX is described by its paragraphs and by where python-docx raises:
\* fail = -1: Document() raises; 0: nothing raises; i >= 1: the text of
\* paragraph i raises
DocxParagraphs == {<<>>, <<"Ann Lee", "Java developer">>}

DocxDocs ==
    UNION { [ file_type : {"docx"}, paragraphs : {p}, fail : -1..Len(p) ] :
              p \in DocxParagraphs }

\* no DOCX is being parsed
NoDocx == [ file_type |-> "", paragraphs |-> <<>>, fail |-> 0 ]

\* parse_resume has not returned: resume_data is not bound
NoProfile == <<>>

NoText == [status |-> "none", value |-> ""]

\* what the user has typed into a widget: NotTyped when the widget was left alone
NotTyped == "<not typed>"

\* the keys of candidate_info that hold text
TextKeys == {"full_name", "email", "phone", "desired_position", "current_location"}

\* what the user has typed into the review widgets when the page runs
ReviewInputs ==
    { [full_name |-> NotTyped, email |-> NotTyped, phone |-> NotTyped,
       years_experience |-> NotTyped, desired_position |-> NotTyped,
       current_location |-> NotTyped, tech_stack |-> NotTyped],
      [full_name |-> "Ann Lee", email |-> NotTyped, phone |-> NotTyped,
       years_experience |-> NotTyped, desired_position |-> NotTyped,
       current_location |-> NotTyped, tech_stack |-> NotTyped],
      [full_name |-> "Ann Lee", email |-> "ann@x.io", phone |-> "555-123-4567",
       years_experience |-> "5", desired_position |-> "Dev",
       current_location |-> "Pune, India", tech_stack |-> "Python, React, python"] }

\* what the manual form holds when it is submitted
ManualInputs ==
    { [full_name |-> "Ann Lee", email |-> "ann@x.io", phone |-> "555-123-4567",
       years_experience |-> "5", desired_position |-> "Dev",
       current_location |-> "Pune, India", tech_stack |-> "python, react"],
      [full_name |-> "Ann Lee", email |-> "ann@x.io", phone |-> "555-123-4567",
       years_experience |-> "5", desired_position |-> "Dev",
       current_location |-> "Pune, India", tech_stack |-> "Python, python , PYTHON"],
      [full_name |-> "Ann Lee", email |-> "ann@x.io", phone |-> "555-123-4567",
       years_experience |-> "five", desired_position |-> "Dev",
       current_location |-> "Pune, India", tech_stack |-> "python"],
      [full_name |-> "Ann Lee", email |-> "", phone |-> "555-123-4567",
       years_experience |-> "5", desired_position |-> "Dev",
       current_location |-> "Pune, India", tech_stack |-> "python"],
      [full_name |-> "Ann Lee", email |-> "ann@x.io", phone |-> "555-123-4567",
       years_experience |-> "5", desired_position |-> "Dev",
       current_location |-> "Pune, India", tech_stack |-> " , "] }

\* not v, for a text or None
Falsy(v) == v = None \/ v = ""

\* d.get(key) for a key that holds text
GetText(d, key) == IF key \in DOMAIN d THEN d[key] ELSE None

\* d.get(key, "") for a key that holds text
GetTextOrEmpty(d, key) == IF key \in DOMAIN d THEN d[key] ELSE ""

\* st.text_input(label, value=default): the text typed, or the default.  With
\* value=None the widget gives None, or "None" where the value is cast to str
\* (the two behaviours Streamlit releases have).
text_input(typed, default, cast) ==
    IF typed # NotTyped THEN typed
    ELSE IF default = None /\ cast THEN "None"
    ELSE default

\* [t.strip() for t in parts[i - 1:] if t.strip()]
RECURSIVE StripNonBlankFrom(_, _)
StripNonBlankFrom(parts, i) ==
    IF i > Len(parts) THEN <<>>
    ELSE (IF Strip(parts[i]) = "" THEN <<>> ELSE <<Strip(parts[i])>>)
             \o StripNonBlankFrom(parts, i + 1)

\* [t.strip() for t in s.split(',') if t.strip()]
SplitTechStack(s) == StripNonBlankFrom(Split(s, ","), 1)

\* int(s) does not raise ValueError
IsIntText(s) == Strip(s) # "" /\ AllIn(Strip(s), Digits)

\* str(info.get("years_experience", ""))
YearsText(info) ==
    IF "years_experience" \notin DOMAIN info THEN ""
    ELSE IF info["years_experience"] = NoneInt THEN "None"
    ELSE ToString(info["years_experience"])

\* not info.get("years_experience") or info.get("years_experience") == 0
YearsWanted(info) ==
    "years_experience" \notin DOMAIN info \/ info["years_experience"] \in {NoneInt, 0}

\* years_exp_input of the review widgets
YearsInput(info, typed) ==
    IF typed["years_experience"] # NotTyped THEN typed["years_experience"] ELSE YearsText(info)

\* not info.get("tech_stack")
TechStackWanted(info) == "tech_stack" \notin DOMAIN info \/ info["tech_stack"] = <<>>

\* ", ".join(stack[i - 1:])
RECURSIVE JoinCommaFrom(_, _)
JoinCommaFrom(stack, i) ==
    IF i > Len(stack) THEN ""
    ELSE IF i = Len(stack) THEN stack[i]
    ELSE stack[i] \o ", " \o JoinCommaFrom(stack, i + 1)

\* candidate_info.update({...}) with the four fields of resume_data
UpdatedFromResume(info, resume) ==
    [key \in DOMAIN info \cup {"email", "phone", "years_experience", "tech_stack"} |->
        IF key \in {"email", "phone", "years_experience", "tech_stack"}
        THEN resume[key] ELSE info[key]]

\* the review widgets: each field that is missing takes what its widget returns
Reviewed(info, typed, cast) ==
    [key \in DOMAIN info \cup TextKeys \cup {"tech_stack"} |->
        IF key \in TextKeys
        THEN (IF Falsy(GetText(info, key))
              THEN text_input(typed[key], GetTextOrEmpty(info, key), cast)
              ELSE info[key])
        ELSE IF key = "years_experience"
        THEN (IF YearsWanted(info) /\ YearsInput(info, typed) # ""
                    /\ IsIntText(YearsInput(info, typed))
              THEN ToNat(Strip(YearsInput(info, typed)))
              ELSE info[key])
        ELSE IF key = "tech_stack"
        THEN (IF TechStackWanted(info)
              THEN SplitTechStack(IF typed[key] # NotTyped THEN typed[key]
                                  ELSE JoinCommaFrom(info[key], 1))
              ELSE info[key])
        ELSE info[key]]

\* the st.error calls of the review widgets
ReviewErrors(info, typed) ==
    IF YearsWanted(info) /\ YearsInput(info, typed) # "" /\ ~IsIntText(YearsInput(info, typed))
    THEN {"Years of Experience must be a number."}
    ELSE {}

\* the upload page from parse_resume's return or raise on: session is
\* candidate_info, resume_data the local of that name, errors the st.error calls
UploadPage(info, parsed, typed, cast) ==
    IF parsed.status = "raised"
    THEN [session     |-> info,
          resume_data |-> NoProfile,
          errors      |-> {"Error processing resume: " \o parsed.value}]
    ELSE [session     |-> Reviewed(UpdatedFromResume(info, parsed.value), typed, cast),
          resume_data |-> parsed.value,
          errors      |-> ReviewErrors(UpdatedFromResume(info, parsed.value), typed)]

\* the manual form on submit
ManualForm(info, form) ==
    IF \E key \in DOMAIN form : form[key] = ""
    THEN [session |-> info, accepted |-> FALSE,
          errors |-> {"Please fill in all the required fields."}]
    ELSE IF ~IsIntText(form["years_experience"])
    THEN [session |-> info, accepted |-> FALSE,
          errors |-> {"Years of Experience must be a number."}]
    ELSE [session |->
              [key \in DOMAIN info \cup DOMAIN form |->
                  IF key = "years_experience" THEN ToNat(Strip(form[key]))
                  ELSE IF key = "tech_stack" THEN SplitTechStack(form[key])
                  ELSE IF key \in DOMAIN form THEN form[key]
                  ELSE info[key]],
          accepted |-> TRUE,
          errors |-> {}]

(***************************************************************************)
(* PromptManager.categorize_tech_stack (src/prompt_manager.py).            *)
(***************************************************************************)
\* a plausible slip: a keyword the extractor knows is missing from the
\* categorizer's copy of the taxonomy
TECH_CATEGORIES_without_go ==
    << [category |-> "languages",
        keywords |-> <<"python", "java", "javascript", "typescript", "c++", "c#",
                       "ruby", "php", "swift", "kotlin", "rust">>],
       [category |-> "frameworks",
        keywords |-> <<"django", "flask", "spring", "react", "angular", "vue",
                       "express", "rails", "laravel", "asp.net">>],
       [category |-> "databases",
        keywords |-> <<"mysql", "postgresql", "mongodb", "redis", "oracle",
                       "sql server", "cassandra">>],
       [category |-> "cloud",
        keywords |-> <<"aws", "azure", "gcp", "heroku", "digitalocean">>],
       [category |-> "tools",
        keywords |-> <<"docker", "kubernetes", "jenkins", "git", "jira", "confluence">>],
       [category |-> "ai_ml",
        keywords |-> <<"tensorflow", "pytorch", "scikit-learn", "pandas", "numpy",
                       "keras">>] >>

\* TECH_CATEGORIES, in the order the dict literal lists the categories
TECH_CATEGORIES ==
    << [category |-> "languages",
        keywords |-> <<"python", "java", "javascript", "typescript", "c++", "c#",
                       "ruby", "php", "swift", "kotlin", "go", "rust">>],
       [category |-> "frameworks",
        keywords |-> <<"django", "flask", "spring", "react", "angular", "vue",
                       "express", "rails", "laravel", "asp.net">>],
       [category |-> "databases",
        keywords |-> <<"mysql", "postgresql", "mongodb", "redis", "oracle",
                       "sql server", "cassandra">>],
       [category |-> "cloud",
        keywords |-> <<"aws", "azure", "gcp", "heroku", "digitalocean">>],
       [category |-> "tools",
        keywords |-> <<"docker", "kubernetes", "jenkins", "git", "jira", "confluence">>],
       [category |-> "ai_ml",
        keywords |-> <<"tensorflow", "pytorch", "scikit-learn", "pandas", "numpy",
                       "keras">>] >>

\* self.tech_categories.keys()
CategoryNames == {TECH_CATEGORIES[c].category : c \in 1..Len(TECH_CATEGORIES)}

\* x in keywords, for a list
InList(x, keywords) == \E k \in 1..Len(keywords) : keywords[k] = x

\* the categories whose keyword list holds tech_lower, by position
CategoriesOf(tech_lower) ==
    {c \in 1..Len(TECH_CATEGORIES) : InList(tech_lower, TECH_CATEGORIES[c].keywords)}

\* the inner loop with its break: the first such category, or "" when there is none
FirstCategory(tech_lower) ==
    IF CategoriesOf(tech_lower) = {} THEN ""
    ELSE TECH_CATEGORIES[Least(CategoriesOf(tech_lower))].category

\* a plausible slip: the entry is looked up as written, not lowercased
FirstCategoryCased(tech) ==
    IF CategoriesOf(tech) = {} THEN ""
    ELSE TECH_CATEGORIES[Least(CategoriesOf(tech))].category

\* the category that claims the entry tech of the input list
ClaimedBy(tech) == FirstCategory(Lower(tech))

\* categorized after the first n entries of tech_stack
RECURSIVE CategorizedUpTo(_, _)
CategorizedUpTo(tech_stack, n) ==
    IF n = 0 THEN [category \in CategoryNames |-> <<>>]
    ELSE IF ClaimedBy(tech_stack[n]) = "" THEN CategorizedUpTo(tech_stack, n - 1)
    ELSE [CategorizedUpTo(tech_stack, n - 1)
             EXCEPT ![ClaimedBy(tech_stack[n])] = Append(@, tech_stack[n])]

\* categorize_tech_stack: value is the returned dict, tech_stack the caller's
\* list after the call
categorize_tech_stack(tech_stack) ==
    [value |-> CategorizedUpTo(tech_stack, Len(tech_stack)), tech_stack |-> tech_stack]

\* the entries of the lists categorize_tech_stack is called with
TechEntries == {"Python", "python", "React", "AWS", "c++", "Cobol", "Sql Server"}

\* the lists of up to MaxTechs entries
TechLists == UNION {[1..n -> TechEntries] : n \in 0..MaxTechs}

NoCategories == [category \in CategoryNames |-> <<>>]

CatInit ==
    /\ cat_arg \in TechLists
    /\ cat_stack = cat_arg
    /\ cat_ret = [op |-> "none", value |-> NoCategories]

CatIdle ==
    /\ cat_arg = <<>>
    /\ cat_stack = <<>>
    /\ cat_ret = [op |-> "none", value |-> NoCategories]

\* categorized = prompt_manager.categorize_tech_stack(tech_stack)
CategorizeCall ==
    /\ cat_ret.op = "none"
    /\ \E r \in {categorize_tech_stack(cat_stack)} :
           /\ cat_ret' = [op |-> "categorize_tech_stack", value |-> r.value]
           /\ cat_stack' = r.tech_stack
    /\ UNCHANGED cat_arg
    /\ UNCHANGED NotCat

\* the keywords of a taxonomy, of every category
KeywordsOf(taxonomy) ==
    UNION {{taxonomy[c].keywords[k] : k \in 1..Len(taxonomy[c].keywords)} :
           c \in 1..Len(taxonomy)}

\* the texts whose extracted tech stack is categorized: those of TechTexts and
\* every keyword of either taxonomy, alone and capitalised in a sentence
TaxonomyTexts ==
    TechTexts \cup KeywordsOf(tech_keywords) \cup KeywordsOf(TECH_CATEGORIES)
        \cup {"Worked with " \o k \o "." : k \in KeywordsOf(tech_keywords)}

TaxonomyInit ==
    /\ fld_text \in TaxonomyTexts
    /\ fld_phone = None
    /\ fld_tech = <<>>
    /\ fld_years = NoneInt
    /\ fld_done = {}

\* categorize_tech_stack(extract_tech_stack(text))
CategorizeExtracted ==
    /\ "tech_stack" \in fld_done
    /\ cat_ret.op = "none"
    /\ cat_arg' = fld_tech
    /\ \E r \in {categorize_tech_stack(fld_tech)} :
           /\ cat_ret' = [op |-> "categorize_tech_stack", value |-> r.value]
           /\ cat_stack' = r.tech_stack
    /\ UNCHANGED NotCat

(***************************************************************************)
(* DataPrivacyManager: anonymization (src/prompt_manager.py).              *)
(***************************************************************************)
\* a plausible slip: the domain is normalised to lower case
hash_email_lowered(email) ==
    IF email = None THEN Raised("AttributeError")
    ELSE LET parts == Split(email, "@")
         IN  IF Len(parts) # 2 THEN Raised("ValueError")
             ELSE Returned(Prefix(Sha256Hex8(parts[1]), 8) \o "@" \o Lower(parts[2]))

\* _hash_email: None has no split; the unpacking needs exactly two parts
hash_email(email) ==
    IF email = None THEN Raised("AttributeError")
    ELSE LET parts == Split(email, "@")
         IN  IF Len(parts) # 2 THEN Raised("ValueError")
             ELSE Returned(Prefix(Sha256Hex8(parts[1]), 8) \o "@" \o parts[2])

\* a plausible slip: a number of exactly 10 digits is split as well
hash_phone_from10(phone) ==
    IF phone = None THEN Raised("TypeError")
    ELSE LET digits == OnlyDigits(phone)
             n == Len(digits)
         IN  IF n >= 10
             THEN Returned("+" \o SubSeq(digits, 1, n - 10) \o "-XXX-"
                               \o Prefix(Sha256Hex8(SubSeq(digits, n - 9, n)), 6))
             ELSE Returned("XXX-" \o Prefix(Sha256Hex8(digits), 6))

\* _hash_phone: re.sub raises on None
hash_phone(phone) ==
    IF phone = None THEN Raised("TypeError")
    ELSE LET digits == OnlyDigits(phone)
             n == Len(digits)
         IN  IF n > 10
             THEN Returned("+" \o SubSeq(digits, 1, n - 10) \o "-XXX-"
                               \o Prefix(Sha256Hex8(SubSeq(digits, n - 9, n)), 6))
             ELSE Returned("XXX-" \o Prefix(Sha256Hex8(digits), 6))

\* a plausible slip: the digest is salted with the time of the call
hash_name_salted(name) ==
    IF name = None THEN Raised("AttributeError")
    ELSE Returned(Prefix(Sha256Hex8(""), 4) \o ToString(elapsed))

\* _hash_name: None has no split
hash_name(name) ==
    IF name = None THEN Raised("AttributeError")
    ELSE LET parts == SplitWs(name)
             n == Len(parts)
         IN  IF n >= 2
             THEN Returned(Char(parts[1], 1) \o "."
                               \o Prefix(Sha256Hex8(JoinSpace(SubSeq(parts, 2, n - 1))), 4)
                               \o "." \o Char(parts[n], 1) \o ".")
             ELSE Returned(Prefix(Sha256Hex8(name), 8))

HashField(key, v) ==
    CASE key = "email"     -> hash_email(v)
      [] key = "phone"     -> hash_phone(v)
      [] key = "full_name" -> hash_name(v)

\* the keys anonymize_data hashes, in the order of its if statements
SensitiveKeys == <<"email", "phone", "full_name">>

\* the result of hashing the i-th sensitive key, when data has it
HashOf(data, i) == HashField(SensitiveKeys[i], data[SensitiveKeys[i]])

\* the i-th if statement raises: the key is there and its hash function raises
RaisesAt(data, i) ==
    SensitiveKeys[i] \in DOMAIN data /\ HashOf(data, i).status = "raised"

\* the index of the first if statement that raises, or 0
FirstRaise(data) ==
    IF {i \in 1..Len(SensitiveKeys) : RaisesAt(data, i)} = {} THEN 0
    ELSE Least({i \in 1..Len(SensitiveKeys) : RaisesAt(data, i)})

\* the copy after the first n if statements ran without raising
AnonymizedUpTo(data, n) ==
    [k \in DOMAIN data |->
        IF \E i \in 1..n : SensitiveKeys[i] = k
        THEN HashField(k, data[k]).value
        ELSE data[k]]

\* a plausible slip: anonymized = data (no copy), so the caller's dict is changed
anonymize_data_in_place(data) ==
    IF FirstRaise(data) = 0
    THEN [status |-> "ok",
          value  |-> AnonymizedUpTo(data, Len(SensitiveKeys)),
          data   |-> AnonymizedUpTo(data, Len(SensitiveKeys))]
    ELSE [status |-> "raised",
          value  |-> HashOf(data, FirstRaise(data)).value,
          data   |-> AnonymizedUpTo(data, FirstRaise(data) - 1)]

\* anonymize_data: value is the returned dict (or the exception), data is the
\* caller's dict after the call: the hashing is done on a copy
anonymize_data(data) ==
    IF FirstRaise(data) = 0
    THEN [status |-> "ok",
          value  |-> AnonymizedUpTo(data, Len(SensitiveKeys)),
          data   |-> data]
    ELSE [status |-> "raised",
          value  |-> HashOf(data, FirstRaise(data)).value,
          data   |-> data]

\* the profiles handed to anonymize_data: each of email, phone and full_name is
\* absent, None (as parse_resume leaves a field it did not find) or set
EmailOpts ==
    {<<>>} \cup {"email" :> v : v \in {None, "ann@x.io", "bob@x.io", "ann@Y.org", "ann"}}

PhoneOpts ==
    {<<>>} \cup {"phone" :> v : v \in {None, "555-123-4567", "+15551234567",
                                       "+44 20 7123 4567", "5551234", ""}}

NameOpts ==
    {<<>>} \cup {"full_name" :> v : v \in {None, "Ann B Lee", "Ann Lee", "Madonna", " Cher "}}

OtherOpts ==
    { [years_experience |-> 5, desired_position |-> "Dev",
       current_location |-> "Pune, India", tech_stack |-> <<"python", "react">>],
      [years_experience |-> NoneInt, tech_stack |-> <<>>] }

Profiles ==
    {e @@ p @@ n @@ o : e \in EmailOpts, p \in PhoneOpts, n \in NameOpts, o \in OtherOpts}

NoCall == [op |-> "none", status |-> "ok", value |-> ""]

DpmInit ==
    /\ dpm_arg \in Profiles
    /\ dpm_data = dpm_arg
    /\ dpm_ret = NoCall
    /\ dpm_log = {}

\* anonymized = privacy.anonymize_data(data)
AnonymizeCall ==
    /\ dpm_ret.op = "none"
    /\ \E r \in {anonymize_data(dpm_data)} :
           /\ dpm_ret' = [op |-> "anonymize_data", status |-> r.status, value |-> r.value]
           /\ dpm_data' = r.data
    /\ UNCHANGED <<dpm_arg, dpm_log>>
    /\ UNCHANGED NotDpm


\* the profiles anonymize_data is called with again and again
RepeatProfiles ==
    {p \in Profiles :
        /\ DOMAIN p = {"full_name", "email", "phone", "years_experience",
                       "desired_position", "current_location", "tech_stack"}
        /\ p["email"] \in {"ann@x.io", None}
        /\ p["phone"] \in {"555-123-4567", "+15551234567"}
        /\ p["full_name"] = "Ann B Lee"}

\* the value a key has in a returned dict, Absent when the key is not in it
Absent == "<absent>"

ResultField(r, key) ==
    IF r.status = "ok" /\ key \in DOMAIN r.value THEN r.value[key] ELSE Absent

\* anonymized = privacy.anonymize_data(data), one call after another
AnonymizeAgain(data) ==
    /\ Cardinality(dpm_log) < MaxCalls
    /\ \E r \in {anonymize_data(data)} :
           /\ dpm_arg' = data
           /\ dpm_data' = r.data
           /\ dpm_ret' = [op |-> "anonymize_data", status |-> r.status, value |-> r.value]
           /\ dpm_log' = dpm_log \cup
                  { [n         |-> Cardinality(dpm_log) + 1,
                     arg       |-> data,
                     at        |-> elapsed,
                     status    |-> r.status,
                     exc       |-> IF r.status = "raised" THEN r.value ELSE "",
                     email     |-> ResultField(r, "email"),
                     phone     |-> ResultField(r, "phone"),
                     full_name |-> ResultField(r, "full_name")] }
    /\ UNCHANGED NotDpm


DpmIdle ==
    /\ dpm_arg = <<>>
    /\ dpm_data = <<>>
    /\ dpm_ret = NoCall
    /\ dpm_log = {}

(***************************************************************************)
(* The UTC clock read by datetime.utcnow().  The model's clock advances in *)
(* half seconds from ClockStart, so that two instants of one second and a  *)
(* change of every field of the timestamp both happen.                     *)
(***************************************************************************)
ClockStart ==
    [year |-> 2024, month |-> 12, day |-> 31, hour |-> 23, minute |-> 59,
     second |-> 59, microsecond |-> 0]

IsLeap(y) == (y % 4 = 0 /\ y % 100 # 0) \/ y % 400 = 0

DaysIn(y, m) ==
    IF m = 2 THEN (IF IsLeap(y) THEN 29 ELSE 28)
    ELSE IF m \in {4, 6, 9, 11} THEN 30 ELSE 31

NextDay(t) ==
    IF t.day < DaysIn(t.year, t.month) THEN [t EXCEPT !.day = t.day + 1]
    ELSE IF t.month < 12 THEN [t EXCEPT !.day = 1, !.month = t.month + 1]
    ELSE [t EXCEPT !.day = 1, !.month = 1, !.year = t.year + 1]

NextSecond(t) ==
    IF t.second < 59 THEN [t EXCEPT !.second = t.second + 1]
    ELSE IF t.minute < 59 THEN [t EXCEPT !.second = 0, !.minute = t.minute + 1]
    ELSE IF t.hour < 23 THEN [t EXCEPT !.second = 0, !.minute = 0, !.hour = t.hour + 1]
    ELSE NextDay([t EXCEPT !.second = 0, !.minute = 0, !.hour = 0])

HalfSecondLater(t) ==
    IF t.microsecond = 0 THEN [t EXCEPT !.microsecond = 500000]
    ELSE NextSecond([t EXCEPT !.microsecond = 0])

RECURSIVE ClockAfter(_)
ClockAfter(n) == IF n = 0 THEN ClockStart ELSE HalfSecondLater(ClockAfter(n - 1))

\* datetime.utcnow()
utcnow == ClockAfter(elapsed)

\* t.strftime('%Y%m%d%H%M%S%f'): a plausible slip, the microseconds kept
strftime_micro(t) ==
    Pad(t.year, 4) \o Pad(t.month, 2) \o Pad(t.day, 2)
        \o Pad(t.hour, 2) \o Pad(t.minute, 2) \o Pad(t.second, 2) \o Pad(t.microsecond, 6)

\* t.strftime('%Y%m%d%H%M%S')
strftime(t) ==
    Pad(t.year, 4) \o Pad(t.month, 2) \o Pad(t.day, 2)
        \o Pad(t.hour, 2) \o Pad(t.minute, 2) \o Pad(t.second, 2)

\* t.isoformat(): the microseconds are written only when they are not zero
isoformat(t) ==
    Pad(t.year, 4) \o "-" \o Pad(t.month, 2) \o "-" \o Pad(t.day, 2) \o "T"
        \o Pad(t.hour, 2) \o ":" \o Pad(t.minute, 2) \o ":" \o Pad(t.second, 2)
        \o (IF t.microsecond = 0 THEN "" ELSE "." \o Pad(t.microsecond, 6))

(***************************************************************************)
(* DataPrivacyManager: candidate ids and the anonymized file;              *)
(* utils.save_candidate_data.                                              *)
(***************************************************************************)
\* data.get('email', ''): the value of the key when it is there, None included
GetEmail(data) == IF "email" \in DOMAIN data THEN data["email"] ELSE ""

\* generate_candidate_id read at the instant t: None has no encode
generate_candidate_id(data, t) ==
    LET email == GetEmail(data)
    IN  IF email = None THEN Raised("AttributeError")
        ELSE Returned("CAND_" \o Prefix(Sha256Hex8(email), 8) \o "_" \o strftime(t))

\* what a file of the candidates directory holds: the dict json.dump was given,
\* and whether the dump wrote all of it
Written(d) == [complete |-> TRUE, json |-> d]

Truncated(d) == [complete |-> FALSE, json |-> d]

\* how the file system answers a write: all is written, open(path, "w") raises,
\* or open truncates the file and json.dump raises part way
IoOutcomes == {"ok", "open_fails", "dump_fails"}

\* with open(path, "w") as f: json.dump(d, f, indent=2)
WriteJson(fs, path, d, io) ==
    CASE io = "ok"         -> [status |-> "ok", exc |-> "", files |-> DictSet(fs, path, Written(d))]
      [] io = "open_fails" -> [status |-> "raised", exc |-> "OSError", files |-> fs]
      [] io = "dump_fails" -> [status |-> "raised", exc |-> "OSError",
                               files |-> DictSet(fs, path, Truncated(d))]

\* save_anonymized_data(data, candidate_id) at the instant t: nothing is caught
save_anonymized_data(fs, data, candidate_id, t, io) ==
    LET a == anonymize_data(data)
        anonymized_data ==
            DictSet(DictSet(a.value, "candidate_id", candidate_id), "timestamp", isoformat(t))
        path == "candidates/" \o candidate_id \o "_anonymized.json"
    IN  IF a.status = "raised"
        THEN [status |-> "raised", exc |-> a.value, files |-> fs]
        ELSE WriteJson(fs, path, anonymized_data, io)

\* save_candidate_data(candidate_info): every exception is caught and printed
save_candidate_data(fs, info, io) ==
    LET full_name == IF "full_name" \in DOMAIN info
                     THEN info["full_name"] ELSE "anonymous"
    IN  IF full_name = None
        THEN [status |-> "ok", exc |-> "AttributeError", files |-> fs]
        ELSE LET path == "candidates/" \o Replace(full_name, " ", "_") \o ".json"
                 w == WriteJson(fs, path, info, io)
             IN  [status |-> "ok", exc |-> w.exc, files |-> w.files]

\* the profiles the store is called with
Ann ==
    [full_name |-> "Ann B Lee", email |-> "ann@x.io", phone |-> "555-123-4567",
     years_experience |-> 5, desired_position |-> "Dev",
     current_location |-> "Pune, India", tech_stack |-> <<"python", "react">>]

StoreProfiles ==
    { Ann,
      [Ann EXCEPT !.phone = "+15551234567", !.years_experience = 6],
      [Ann EXCEPT !.full_name = "Madonna", !.email = "bob@x.io"],
      [k \in DOMAIN Ann \ {"email"} |-> Ann[k]],
      [email |-> None, phone |-> None, years_experience |-> NoneInt, tech_stack |-> <<>>] }

\* the candidate_info the chat loop holds once the manual form was accepted:
\* every field is set
FormProfiles ==
    {p \in StoreProfiles :
        /\ DOMAIN p = DOMAIN Ann
        /\ \A k \in {"full_name", "email", "phone"} : p[k] \notin {None, ""}}

\* the clock moves on
Tick ==
    /\ elapsed < MaxTicks
    /\ elapsed' = elapsed + 1
    /\ UNCHANGED <<NotStore, issued, files, saves, st_ret>>


\* candidate_id = privacy.generate_candidate_id(data)
GenerateId(data) ==
    /\ \E now \in {utcnow} : \E r \in {generate_candidate_id(data, now)} :
       \E rec \in {[email |-> GetEmail(data), at |-> now, id |-> r.value]} :
           /\ r.status = "ok" => (rec \in issued \/ Cardinality(issued) < MaxIds)
           /\ issued' = IF r.status = "ok" THEN issued \cup {rec} ELSE issued
           /\ st_ret' = [op |-> "generate_candidate_id", status |-> r.status, value |-> r.value]
    /\ UNCHANGED <<NotStore, elapsed, files, saves>>


\* privacy.save_anonymized_data(data, candidate_id), the id generated from data
\* at an instant up to now
SaveAnonymized(data, k, io) ==
    /\ saves < MaxSaves
    /\ k <= elapsed
    /\ \E then \in {ClockAfter(k)}, now \in {utcnow} :
       \E id \in {generate_candidate_id(data, then)} :
           /\ id.status = "ok"
           /\ \E r \in {save_anonymized_data(files, data, id.value, now, io)} :
               /\ files' = r.files
               /\ st_ret' = [op |-> "save_anonymized_data", status |-> r.status, value |-> r.exc]
    /\ saves' = saves + 1
    /\ UNCHANGED <<NotStore, elapsed, issued>>


\* the chat loop (src/app.py): if len(candidate_info) >= 6: save_candidate_data(candidate_info)
SaveCandidateData(info, io) ==
    /\ saves < MaxSaves
    /\ Cardinality(DOMAIN info) >= 6
    /\ \E r \in {save_candidate_data(files, info, io)} :
           /\ files' = r.files
           /\ st_ret' = [op |-> "save_candidate_data", status |-> r.status, value |-> r.exc]
    /\ saves' = saves + 1
    /\ UNCHANGED <<NotStore, elapsed, issued>>


(***************************************************************************)
(* utils.query_model (src/utils.py): Ollama first, Hugging Face as the     *)
(* fallback.  A backend is described by how its call ends: it returns a    *)
(* text or raises.                                                         *)
(***************************************************************************)
\* the subclasses of requests.exceptions.RequestException that requests.post
\* and raise_for_status raise
RequestExceptions == {"ConnectionError", "Timeout", "HTTPError"}

\* how _query_ollama ends: response.json().get("response", "") or an exception,
\* of requests or another (the body is no JSON object)
OllamaOutcomes ==
    {Returned("Great answer."), Returned("")}
        \cup {Raised(e) : e \in RequestExceptions \cup {"AttributeError"}}

\* how _query_huggingface ends: the generated text, or the exception it wraps
\* every failure in
HuggingFaceOutcomes ==
    {Returned("Tell me more."), Returned(""),
     Raised("Failed to load or query Hugging Face via pipeline")}

Backends == [ollama : OllamaOutcomes, huggingface : HuggingFaceOutcomes]

Apology ==
    "I apologize, but I'm currently unable to connect to the AI models. Please try again later."

\* the inner try of both except branches: _query_huggingface, or the apology
Fallback(backends) ==
    IF backends.huggingface.status = "ok"
    THEN [status |-> "ok", value |-> backends.huggingface.value,
          calls |-> <<"ollama", "huggingface">>]
    ELSE [status |-> "ok", value |-> Apology, calls |-> <<"ollama", "huggingface">>]

\* a plausible slip: only the exceptions of requests lead to the fallback
query_model_requests_only(backends) ==
    IF backends.ollama.status = "ok"
    THEN [status |-> "ok", value |-> backends.ollama.value, calls |-> <<"ollama">>]
    ELSE IF backends.ollama.value \in RequestExceptions
    THEN Fallback(backends)
    ELSE [status |-> "raised", value |-> backends.ollama.value, calls |-> <<"ollama">>]

\* query_model: how it ends and the backend calls it made, in order
query_model(backends) ==
    IF backends.ollama.status = "ok"
    THEN [status |-> "ok", value |-> backends.ollama.value, calls |-> <<"ollama">>]
    ELSE IF backends.ollama.value \in RequestExceptions
    THEN Fallback(backends)
    ELSE Fallback(backends)

\* what the user types into st.chat_input
ChatPrompts == {"exit", " Bye ", "hello", "exit now"}

\* the prompts query_model is called with
Prompts == ChatPrompts \cup {"Quit", "I love Python"}

\* the backends during a conversation: Ollama answers, Ollama answers with an
\* empty response, both backends are down
ChatBackends ==
    { [ollama |-> Returned("Great answer."), huggingface |-> Returned("Tell me more.")],
      [ollama |-> Returned(""), huggingface |-> Returned("Tell me more.")],
      [ollama      |-> Raised("ConnectionError"),
       huggingface |-> Raised("Failed to load or query Hugging Face via pipeline")] }

\* the candidates directory during a conversation: writable or not
ChatIo ==
    { [candidate |-> "ok", analysis |-> "ok"],
      [candidate |-> "open_fails", analysis |-> "open_fails"] }

NoQuery == [status |-> "none", value |-> "", calls |-> <<>>]

NoBackends == [ollama |-> Returned(""), huggingface |-> Returned("")]

QmIdle ==
    /\ qm_prompt = ""
    /\ qm_backends = NoBackends
    /\ qm_ret = NoQuery

\* response = query_model(prompt)
QueryModel ==
    /\ qm_prompt' \in Prompts
    /\ qm_backends' \in Backends
    /\ qm_ret' = query_model(qm_backends')
    /\ UNCHANGED <<pdfVars, fldVars, catVars, dpmVars, storeVars, appVars, chatVars>>

(***************************************************************************)
(* The chat page of src/app.py.  Every interaction runs the script from    *)
(* the top; the chat page is its last part and runs whenever               *)
(* conversation_started is set.                                            *)
(***************************************************************************)
Message(role, content) == [role |-> role, content |-> content]

Greeting == "Hello! I'm your TalentScout AI Assistant. How can I help you today?"

Farewell ==
    "Thank you for your time! A recruiter will review your information and get back to you soon."

ManualQuestions == "Based on your provided tech stack, here are some initial questions:\n\n"

ResumeQuestions ==
    "Thank you for uploading your resume! To start, here are some technical questions based on your tech stack:\n\n"

ResumeNoQuestions ==
    "Thank you for uploading your resume! I'm ready to begin the screening process. What is your full name?"

exit_commands == <<"exit", "quit", "bye", "goodbye", "end">>

\* a plausible slip: the message is not lowercased
check_exit_cased(message) == InList(Strip(message), exit_commands)

\* utils.check_exit
check_exit(message) == InList(Strip(Lower(message)), exit_commands)

\* generate_technical_questions: tech_stack goes into the prompt, the answer is
\* whatever query_model returns
generate_technical_questions(tech_stack, backends) == query_model(backends)

\* ConversationAnalyzer.save_analysis: nothing is caught.  Of the entries of
\* sentiment_history the text is kept.
save_analysis(fs, history, candidate_name, io) ==
    WriteJson(fs, "candidates/" \o candidate_name \o "_analysis.json",
              [sentiment_history |-> history], io)

\* candidate_info.get("full_name", "unknown_candidate") inside the f-string
AnalysisName(info) ==
    IF "full_name" \notin DOMAIN info THEN "unknown_candidate"
    ELSE IF info["full_name"] = None THEN "None"
    ELSE info["full_name"]

\* the display loop: update_history(content, role) appends an entry for every
\* message of role "user" among messages[i - 1:], and none for the others
RECURSIVE UpdatedHistoryFrom(_, _, _)
UpdatedHistoryFrom(history, msgs, i) ==
    IF i > Len(msgs) THEN history
    ELSE UpdatedHistoryFrom(IF msgs[i].role = "user"
                            THEN Append(history, msgs[i].content) ELSE history,
                            msgs, i + 1)

\* the number of entries the display loop will add
UserMessages(msgs) == Cardinality({i \in 1..Len(msgs) : msgs[i].role = "user"})

\* the greeting of a conversation that has no message yet
Greeted(method, info, msgs, backends) ==
    IF msgs # <<>> THEN msgs
    ELSE IF method = "manual" /\ ~TechStackWanted(info)
    THEN <<Message("assistant", Greeting),
           Message("assistant",
                   ManualQuestions
                       \o generate_technical_questions(info["tech_stack"], backends).value)>>
    ELSE <<Message("assistant", Greeting)>>

\* the chat page up to the chat input: greeting, then the display loop
ChatPage(method, started, info, msgs, history, asked, backends) ==
    IF ~started
    THEN [messages |-> msgs, sentiment_history |-> history, queries |-> asked]
    ELSE [messages |-> Greeted(method, info, msgs, backends),
          sentiment_history |->
              UpdatedHistoryFrom(history, Greeted(method, info, msgs, backends), 1),
          queries |-> IF msgs = <<>> /\ method = "manual" /\ ~TechStackWanted(info)
                      THEN asked + 1 ELSE asked]

\* the two saves at the end of a chat turn; save_analysis may raise
SavedAfterTurn(fs, info, history, io) ==
    IF Cardinality(DOMAIN info) < 6 THEN [files |-> fs, end |-> "ok"]
    ELSE LET saved == save_candidate_data(fs, info, io.candidate)
             analysed == save_analysis(saved.files, history, AnalysisName(info), io.analysis)
         IN  [files |-> analysed.files,
              end   |-> IF analysed.status = "ok" THEN "ok" ELSE analysed.exc]

\* the chat input with the prompt typed: how the run ends, and what it leaves
ChatInput(page, prompt, backends, info, fs, io) ==
    IF check_exit(prompt)
    THEN [messages |-> page.messages \o <<Message("user", prompt),
                                          Message("assistant", Farewell)>>,
          queries  |-> page.queries,
          response |-> None,
          files    |-> fs,
          end      |-> "stopped"]
    ELSE IF query_model(backends).status = "raised"
    THEN [messages |-> Append(page.messages, Message("user", prompt)),
          queries  |-> page.queries + 1,
          response |-> None,
          files    |-> fs,
          end      |-> query_model(backends).value]
    ELSE IF query_model(backends).value = ""
    THEN [messages |-> Append(page.messages, Message("user", prompt)),
          queries  |-> page.queries + 1,
          response |-> "",
          files    |-> fs,
          end      |-> "IndexError"]
    ELSE [messages |-> page.messages
                          \o <<Message("user", prompt),
                               Message("assistant", Char(query_model(backends).value, 1))>>,
          queries  |-> page.queries + 1,
          response |-> query_model(backends).value,
          files    |-> SavedAfterTurn(fs, info, page.sentiment_history, io).files,
          end      |-> SavedAfterTurn(fs, info, page.sentiment_history, io).end]

\* not info.get(key), for a key that holds text
Missing(info, key) == Falsy(GetText(info, key))

\* all_info_present of the upload page
all_info_present(info) ==
    /\ ~Missing(info, "full_name")
    /\ ~Missing(info, "email")
    /\ ~Missing(info, "phone")
    /\ "years_experience" \in DOMAIN info /\ info["years_experience"] # NoneInt
    /\ ~Missing(info, "desired_position")
    /\ ~Missing(info, "current_location")
    /\ ~TechStackWanted(info)

\* the message Start Screening appends
StartMessage(info, backends) ==
    IF ~TechStackWanted(info)
    THEN Message("assistant",
                 ResumeQuestions
                     \o generate_technical_questions(info["tech_stack"], backends).value)
    ELSE Message("assistant", ResumeNoQuestions)

\* the Start Screening clicks so far
Starts(msgs) ==
    Cardinality({i \in 1..Len(msgs) :
                    StartsWith(msgs[i].content, 1, "Thank you for uploading your resume!")})

ChatIdle ==
    /\ input_method = None
    /\ conversation_started = FALSE
    /\ messages = <<>>
    /\ sentiment_history = <<>>
    /\ queries = 0
    /\ chat_prompt = None
    /\ chat_response = None
    /\ run_end = "ok"

\* the chat page at the end of a run in which nothing was typed into the chat input
RunChatPage(method, started, info, backends) ==
    /\ Len(sentiment_history) + UserMessages(messages) <= MaxHistory
    /\ \E page \in {ChatPage(method, started, info, messages, sentiment_history,
                             queries, backends)} :
           /\ messages' = page.messages
           /\ sentiment_history' = page.sentiment_history
           /\ queries' = page.queries
    /\ chat_prompt' = None
    /\ chat_response' = None
    /\ run_end' = "ok"

\* "Start Manual Input" or "Upload Resume" is clicked on the selection page
SelectMethod ==
    /\ app_pc = "idle"
    /\ input_method = None
    /\ \E method \in {"manual", "resume"} :
           /\ input_method' = method
           /\ RunChatPage(method, conversation_started, candidate_info, NoBackends)
    /\ app_errors' = {}
    /\ UNCHANGED <<candidate_info, resume_data, app_pc, app_text, app_docx,
                   conversation_started>>
    /\ UNCHANGED NotApp

\* "Back to Selection" is clicked: the widgets of the page are gone
BackToSelection ==
    /\ app_pc = "idle"
    /\ input_method # None
    /\ input_method' = None
    /\ RunChatPage(None, conversation_started, candidate_info, NoBackends)
    /\ resume_data' = NoProfile
    /\ app_errors' = {}
    /\ UNCHANGED <<candidate_info, app_pc, app_text, app_docx, conversation_started>>
    /\ UNCHANGED NotApp

\* the script runs again with nothing typed or clicked on the page
Rerun ==
    /\ app_pc = "idle"
    /\ conversation_started
    /\ RunChatPage(input_method, conversation_started, candidate_info, NoBackends)
    /\ UNCHANGED <<appVars, input_method, conversation_started>>
    /\ UNCHANGED NotApp

\* a message is typed into the chat input
ChatTurn ==
    /\ app_pc = "idle"
    /\ conversation_started
    /\ Len(messages) + 2 <= MaxMessages
    /\ Len(sentiment_history) + UserMessages(messages) <= MaxHistory
    /\ \E prompt \in ChatPrompts, backends \in ChatBackends, io \in ChatIo :
       \E page \in {ChatPage(input_method, conversation_started, candidate_info, messages,
                             sentiment_history, queries, backends)} :
       \E turn \in {ChatInput(page, prompt, backends, candidate_info, files, io)} :
           /\ messages' = turn.messages
           /\ sentiment_history' = page.sentiment_history
           /\ queries' = turn.queries
           /\ files' = turn.files
           /\ chat_prompt' = prompt
           /\ chat_response' = turn.response
           /\ run_end' = turn.end
    /\ UNCHANGED <<appVars, input_method, conversation_started>>
    /\ UNCHANGED <<pdfVars, fldVars, catVars, dpmVars, qmVars, elapsed, issued, saves, st_ret>>

AppIdle ==
    /\ candidate_info = <<>>
    /\ resume_data = NoProfile
    /\ app_errors = {}
    /\ app_pc = "idle"
    /\ app_text = NoText
    /\ app_docx = NoDocx

\* a PDF is uploaded: parse_resume calls extract_text_from_pdf
UploadPdf ==
    /\ app_pc = "idle"
    /\ input_method = "resume"
    /\ Len(sentiment_history) + UserMessages(messages) <= MaxHistory
    /\ pdf_pc = "idle"
    /\ pdf_doc' \in UploadDocs
    /\ pdf_text' = ""
    /\ pdf_pc' = "fitz_open"
    /\ pdf_i' = 0
    /\ pdf_primary' = "pending"
    /\ pdf_primary_text' = ""
    /\ pdf_secondary' = "untried"
    /\ pdf_result' = ""
    /\ app_pc' = "extract_pdf"
    /\ UNCHANGED <<candidate_info, resume_data, app_errors, app_text, app_docx>>
    /\ UNCHANGED <<fldVars, catVars, dpmVars, storeVars, qmVars, chatVars>>


\* extract_text_from_pdf has returned or raised into parse_resume
PdfExtracted ==
    /\ app_pc = "extract_pdf"
    /\ pdf_pc \in {"returned", "raised"}
    /\ app_text' = IF pdf_pc = "returned" THEN Returned(pdf_result)
                   ELSE Raised("Failed to extract text from PDF")
    /\ app_pc' = "extracted"
    /\ pdf_pc' = "idle"
    /\ pdf_doc' = NoDoc
    /\ pdf_text' = ""
    /\ pdf_i' = 0
    /\ pdf_primary' = "pending"
    /\ pdf_primary_text' = ""
    /\ pdf_secondary' = "untried"
    /\ pdf_result' = ""
    /\ UNCHANGED <<candidate_info, resume_data, app_errors, app_docx>>
    /\ UNCHANGED <<fldVars, catVars, dpmVars, storeVars, qmVars, chatVars>>


\* a DOCX is uploaded: parse_resume calls extract_text_from_docx
UploadDocx ==
    /\ app_pc = "idle"
    /\ input_method = "resume"
    /\ Len(sentiment_history) + UserMessages(messages) <= MaxHistory
    /\ pdf_pc = "idle"
    /\ \E d \in DocxDocs :
           /\ app_docx' = d
           /\ app_text' = extract_text_from_docx(d)
    /\ app_pc' = "extracted"
    /\ UNCHANGED <<candidate_info, resume_data, app_errors>>
    /\ UNCHANGED chatVars
    /\ UNCHANGED NotApp


\* the rest of the upload page: the field extraction, the update of
\* candidate_info and the review widgets, or the except branch; Start Screening
\* is not clicked; then the chat page
UploadHandled ==
    /\ app_pc = "extracted"
    /\ \E parsed \in {parse_resume(app_text)} :
       \E typed \in ReviewInputs, cast \in BOOLEAN :
       \E page \in {UploadPage(candidate_info, parsed, typed, cast)} :
           /\ candidate_info' = page.session
           /\ resume_data' = page.resume_data
           /\ app_errors' = page.errors
           /\ RunChatPage(input_method, conversation_started, page.session, NoBackends)
    /\ app_pc' = "idle"
    /\ app_text' = NoText
    /\ app_docx' = NoDocx
    /\ UNCHANGED <<input_method, conversation_started>>
    /\ UNCHANGED NotApp

\* Start Screening is clicked on the upload page, which holds a parsed resume
\* and the same widget values as in its last run: st.rerun(), then the chat page
StartScreening ==
    /\ app_pc = "idle"
    /\ input_method = "resume"
    /\ DOMAIN resume_data # {}
    /\ all_info_present(candidate_info)
    /\ Starts(messages) < MaxStarts
    /\ Len(sentiment_history) + UserMessages(messages) <= MaxHistory
    /\ conversation_started' = TRUE
    /\ \E backends \in ChatBackends :
       \E page \in {ChatPage(input_method, TRUE, candidate_info,
                             Append(messages, StartMessage(candidate_info, backends)),
                             sentiment_history,
                             IF TechStackWanted(candidate_info) THEN queries ELSE queries + 1,
                             backends)} :
           /\ messages' = page.messages
           /\ sentiment_history' = page.sentiment_history
           /\ queries' = page.queries
    /\ chat_prompt' = None
    /\ chat_response' = None
    /\ run_end' = "ok"
    /\ UNCHANGED <<appVars, input_method>>
    /\ UNCHANGED NotApp


\* the manual form is submitted
ManualSubmit ==
    /\ app_pc = "idle"
    /\ input_method = "manual"
    /\ \E form \in ManualInputs, backends \in ChatBackends :
       \E page \in {ManualForm(candidate_info, form)} :
           /\ candidate_info' = page.session
           /\ app_errors' = page.errors
           /\ conversation_started' = (conversation_started \/ page.accepted)
           /\ RunChatPage(input_method, conversation_started \/ page.accepted,
                          page.session, backends)
    /\ UNCHANGED <<resume_data, app_pc, app_text, app_docx, input_method>>
    /\ UNCHANGED NotApp

FldIdle ==
    /\ fld_text = ""
    /\ fld_phone = None
    /\ fld_tech = <<>>
    /\ fld_years = NoneInt
    /\ fld_done = {}

StoreIdle ==
    /\ elapsed = 0
    /\ issued = {}
    /\ files = <<>>
    /\ saves = 0
    /\ st_ret = NoCall

PdfIdle ==
    /\ pdf_doc = NoDoc
    /\ pdf_pc = "idle"
    /\ pdf_text = ""
    /\ pdf_i = 0
    /\ pdf_primary = "pending"
    /\ pdf_primary_text = ""
    /\ pdf_secondary = "untried"
    /\ pdf_result = ""

PdfNext ==
    \/ PdfCall
    \/ FitzOpen
    \/ FitzPage
    \/ PdfCheck
    \/ PlumberOpen
    \/ PlumberPage
    \/ PdfReturn
    \/ PdfDone

InitPdf == PdfIdle /\ FldIdle /\ DpmIdle /\ StoreIdle /\ CatIdle /\ AppIdle /\ QmIdle /\ ChatIdle

SpecPdf == InitPdf /\ [][PdfNext]_vars

FldNext ==
    \/ ExtractPhone

InitFields == FldInit /\ PdfIdle /\ DpmIdle /\ StoreIdle /\ CatIdle /\ AppIdle /\ QmIdle /\ ChatIdle

SpecFields == InitFields /\ [][FldNext]_vars

InitTech == TechInit /\ PdfIdle /\ DpmIdle /\ StoreIdle /\ CatIdle /\ AppIdle /\ QmIdle /\ ChatIdle

TechNext ==
    \/ ExtractTechStack

SpecTech == InitTech /\ [][TechNext]_vars

InitTaxonomy == TaxonomyInit /\ PdfIdle /\ DpmIdle /\ StoreIdle /\ CatIdle /\ AppIdle /\ QmIdle /\ ChatIdle

TaxonomyNext ==
    \/ ExtractTechStack
    \/ CategorizeExtracted

SpecTaxonomy == InitTaxonomy /\ [][TaxonomyNext]_vars

QueryNext ==
    \/ QueryModel

InitQuery == QmIdle /\ PdfIdle /\ FldIdle /\ DpmIdle /\ StoreIdle /\ CatIdle /\ AppIdle /\ ChatIdle

SpecQuery == InitQuery /\ [][QueryNext]_vars

ChatNext ==
    \/ SelectMethod
    \/ ManualSubmit
    \/ ChatTurn
    \/ Rerun

InitChat == ChatIdle /\ AppIdle /\ PdfIdle /\ FldIdle /\ DpmIdle /\ StoreIdle /\ CatIdle /\ QmIdle

SpecChat == InitChat /\ [][ChatNext]_vars

InitYears == YearsInit /\ PdfIdle /\ DpmIdle /\ StoreIdle /\ CatIdle /\ AppIdle /\ QmIdle /\ ChatIdle

YearsNext ==
    \/ ExtractYears

SpecYears == InitYears /\ [][YearsNext]_vars

InitCat == CatInit /\ PdfIdle /\ FldIdle /\ DpmIdle /\ StoreIdle /\ AppIdle /\ QmIdle /\ ChatIdle

CatNext ==
    \/ CategorizeCall

SpecCat == InitCat /\ [][CatNext]_vars

InitUpload == AppIdle /\ PdfIdle /\ FldIdle /\ CatIdle /\ DpmIdle /\ StoreIdle /\ QmIdle /\ ChatIdle

UploadNext ==
    \/ UploadPdf
    \/ FitzOpen
    \/ FitzPage
    \/ PdfCheck
    \/ PlumberOpen
    \/ PlumberPage
    \/ PdfReturn
    \/ PdfExtracted
    \/ UploadDocx
    \/ UploadHandled
    \/ StartScreening
    \/ ManualSubmit
    \/ SelectMethod
    \/ BackToSelection

SpecUpload == InitUpload /\ [][UploadNext]_vars

InitAnon == DpmInit /\ PdfIdle /\ FldIdle /\ StoreIdle /\ CatIdle /\ AppIdle /\ QmIdle /\ ChatIdle

AnonNext ==
    \/ AnonymizeCall

SpecAnon == InitAnon /\ [][AnonNext]_vars

RepeatNext ==
    \/ Tick
    \/ \E data \in RepeatProfiles : AnonymizeAgain(data)

InitRepeat == DpmIdle /\ StoreIdle /\ PdfIdle /\ FldIdle /\ CatIdle /\ AppIdle /\ QmIdle /\ ChatIdle

SpecAnonRepeat == InitRepeat /\ [][RepeatNext]_vars

InitStore == StoreIdle /\ PdfIdle /\ FldIdle /\ DpmIdle /\ CatIdle /\ AppIdle /\ QmIdle /\ ChatIdle

IdsNext ==
    \/ Tick
    \/ \E data \in StoreProfiles : GenerateId(data)

SpecIds == InitStore /\ [][IdsNext]_vars

StoreNext ==
    \/ Tick
    \/ \E data \in StoreProfiles, k \in 0..MaxTicks, io \in IoOutcomes : SaveAnonymized(data, k, io)
    \/ \E info \in FormProfiles, io \in IoOutcomes : SaveCandidateData(info, io)

SpecStore == InitStore /\ [][StoreNext]_vars

(***************************************************************************)
(* Claims about extract_text_from_pdf, checked under SpecPdf.              *)
(***************************************************************************)
PdfEnded == pdf_pc \in {"returned", "raised"}

\* C1: when the primary strategy completes without raising and yields empty or
\* whitespace-only text, the secondary strategy has been run by the time
\* extract_text_from_pdf returns or raises; and an extraction failure is never
\* raised while the secondary strategy is untried.
C1_FallbackBeforeFailure ==
    /\ (PdfEnded /\ pdf_primary = "ok" /\ Strip(pdf_primary_text) = "")
          => pdf_secondary \in {"ok", "raised"}
    /\ pdf_pc = "raised" => pdf_secondary = "raised"

\* C1 witness: the primary strategy yielded whitespace, the secondary strategy
\* was tried and raised, and only then the failure was raised.
C1_Witness ==
    /\ pdf_pc = "raised"
    /\ pdf_primary = "ok"
    /\ pdf_primary_text = " \n"
    /\ pdf_secondary = "raised"

\* C2: extract_text_from_pdf never returns an empty or whitespace-only string
\* as a successful result (when neither strategy produces usable text it fails).
C2_NeverReturnsBlank ==
    pdf_pc = "returned" => Strip(pdf_result) # ""

\* C6: when the primary strategy completes without raising and yields text with
\* a non-whitespace character, the secondary strategy is never invoked, no
\* failure is raised, and the returned text is exactly the primary text.
C6_PrimaryTextReturnedAsIs ==
    (pdf_primary = "ok" /\ Strip(pdf_primary_text) # "")
        => /\ pdf_secondary = "untried"
           /\ pdf_pc \notin {"plumber_open", "plumber_pages", "raised"}
           /\ pdf_pc = "returned" => pdf_result = pdf_primary_text

\* C6 witness: a two-page document whose primary text starts with whitespace is
\* returned unstripped, with the secondary strategy untried.
C6_Witness ==
    /\ pdf_pc = "returned"
    /\ pdf_primary = "ok"
    /\ pdf_primary_text = " \nAnn"
    /\ pdf_result = " \nAnn"
    /\ pdf_secondary = "untried"

(***************************************************************************)
(* Claims about extract_phone, checked under SpecFields.                   *)
(***************************************************************************)
\* C5: extract_phone returns the match of the first of the patterns plain,
\* international, parenthesized (in that order) that matches anywhere in the
\* text, whatever a later pattern would match, and None when none matches.
C5_FirstPatternWins ==
    "phone" \in fld_done =>
        fld_phone =
            IF PhoneSearch("plain", fld_text) # NoMatch
            THEN Group0(fld_text, PhoneSearch("plain", fld_text))
            ELSE IF PhoneSearch("intl", fld_text) # NoMatch
            THEN Group0(fld_text, PhoneSearch("intl", fld_text))
            ELSE IF PhoneSearch("paren", fld_text) # NoMatch
            THEN Group0(fld_text, PhoneSearch("paren", fld_text))
            ELSE None

\* C5 witness: the parenthesized number comes first in the text and is the
\* longer match, and the plain number after it is what is returned.
C5_Witness ==
    /\ "phone" \in fld_done
    /\ fld_text = "(987) 654-3210 123-456-7890"
    /\ PhoneSearch("paren", fld_text).start < PhoneSearch("plain", fld_text).start
    /\ fld_phone = "123-456-7890"

(***************************************************************************)
(* Claims about anonymize_data, checked under SpecAnon.                    *)
(***************************************************************************)
Anonymized == dpm_ret.op = "anonymize_data"

\* a profile whose email, when set, has the shape local@domain
StructurallyValid(p) ==
    ("email" \in DOMAIN p /\ p["email"] # None) => Len(Split(p["email"], "@")) = 2

\* C4: anonymize_data never raises for a structurally valid profile, whichever
\* of email, phone and full_name are unset (absent, or present as None), and
\* each field that is None in the profile is None in the result.
C4_NeverRaisesOnUnset ==
    (Anonymized /\ StructurallyValid(dpm_arg)) =>
        /\ dpm_ret.status = "ok"
        /\ \A i \in 1..Len(SensitiveKeys) :
              (SensitiveKeys[i] \in DOMAIN dpm_arg /\ dpm_arg[SensitiveKeys[i]] = None)
                  => dpm_ret.value[SensitiveKeys[i]] = None

OtherKeys == {"years_experience", "desired_position", "current_location", "tech_stack"}

\* C7: the result of anonymize_data has years_experience, desired_position,
\* current_location and tech_stack as the input has them, and the call leaves
\* the input profile as it was.
C7_OtherFieldsUntouched ==
    Anonymized =>
        /\ dpm_data = dpm_arg
        /\ dpm_ret.status = "ok" =>
              /\ DOMAIN dpm_ret.value = DOMAIN dpm_arg
              /\ \A k \in OtherKeys \cap DOMAIN dpm_arg : dpm_ret.value[k] = dpm_arg[k]

\* C7 witness: a full profile was anonymized: its email was replaced in the
\* result, the other fields are the input's, and the input still has its email.
C7_Witness ==
    /\ Anonymized
    /\ dpm_ret.status = "ok"
    /\ DOMAIN dpm_arg = DOMAIN Ann
    /\ dpm_arg["email"] = "ann@x.io"
    /\ dpm_ret.value["email"] = "49915e0d@x.io"
    /\ dpm_ret.value["tech_stack"] = <<"python", "react">>
    /\ dpm_ret.value["years_experience"] = 5
    /\ dpm_data["email"] = "ann@x.io"

(***************************************************************************)
(* Claims about the candidates directory, checked under SpecStore.         *)
(***************************************************************************)
\* <8 hex digits>@<domain>
IsAnonEmail(v) ==
    /\ Len(Split(v, "@")) = 2
    /\ Len(Split(v, "@")[1]) = 8
    /\ AllIn(Split(v, "@")[1], HexDigits)

\* XXX-<6 hex digits>, or +<digits>-XXX-<6 hex digits>
IsAnonPhone(v) ==
    /\ Len(v) >= 10
    /\ SubSeq(v, Len(v) - 9, Len(v) - 6) = "XXX-"
    /\ AllIn(SubSeq(v, Len(v) - 5, Len(v)), HexDigits)
    /\ \/ Len(v) = 10
       \/ /\ Len(v) >= 13
          /\ Char(v, 1) = "+"
          /\ Char(v, Len(v) - 10) = "-"
          /\ AllIn(SubSeq(v, 2, Len(v) - 11), Digits)

\* <8 hex digits>, or <initial>.<4 hex digits>.<initial>.
IsAnonName(v) ==
    \/ Len(v) = 8 /\ AllIn(v, HexDigits)
    \/ /\ Len(v) = 9
       /\ Char(v, 2) = "." /\ Char(v, 7) = "." /\ Char(v, 9) = "."
       /\ AllIn(SubSeq(v, 3, 6), HexDigits)

\* C3: every file of the candidates directory, whichever save operation wrote
\* it, holds full_name, email and phone only in their anonymized forms.
C3_FilesHoldNoRawPII ==
    \A path \in DOMAIN files :
        /\ "email" \in DOMAIN files[path].json => IsAnonEmail(files[path].json["email"])
        /\ "phone" \in DOMAIN files[path].json => IsAnonPhone(files[path].json["phone"])
        /\ "full_name" \in DOMAIN files[path].json => IsAnonName(files[path].json["full_name"])

\* C8: every save targets a destination of its own, so no save changes or
\* removes a file that is already in the candidates directory (stated for the
\* saves that write their record completely).
C8_PersistedNeverOverwritten ==
    [][(\A path \in DOMAIN files' : files'[path].complete)
          => \A path \in DOMAIN files :
                 path \in DOMAIN files' /\ files'[path] = files[path]]_vars

(***************************************************************************)
(* Claims about generate_candidate_id, checked under SpecIds.              *)
(***************************************************************************)
SameSecond(a, b) == [a EXCEPT !.microsecond = 0] = [b EXCEPT !.microsecond = 0]

\* CAND_ + 8 hex digits, the digest of the email + _ + YYYYMMDDHHMMSS of the
\* instant the id was generated at
WellFormedId(r) ==
    /\ Len(r.id) = 28
    /\ SubSeq(r.id, 1, 5) = "CAND_"
    /\ AllIn(SubSeq(r.id, 6, 13), HexDigits)
    /\ SubSeq(r.id, 6, 13) = Prefix(Sha256Hex8(r.email), 8)
    /\ Char(r.id, 14) = "_"
    /\ AllIn(SubSeq(r.id, 15, 28), Digits)
    /\ ToNat(SubSeq(r.id, 15, 18)) = r.at.year
    /\ ToNat(SubSeq(r.id, 19, 20)) = r.at.month
    /\ ToNat(SubSeq(r.id, 21, 22)) = r.at.day
    /\ ToNat(SubSeq(r.id, 23, 24)) = r.at.hour
    /\ ToNat(SubSeq(r.id, 25, 26)) = r.at.minute
    /\ ToNat(SubSeq(r.id, 27, 28)) = r.at.second

\* C9: every id generate_candidate_id returns is CAND_ + the 8-hex digest of
\* the email + _ + the UTC time as YYYYMMDDHHMMSS, and two calls with the same
\* email within the same UTC second return the identical id.
C9_IdFormatAndSameSecond ==
    /\ \A r \in issued : WellFormedId(r)
    /\ \A a, b \in issued :
          (a.email = b.email /\ SameSecond(a.at, b.at)) => a.id = b.id

\* C9 witness: two calls with the same email at different instants of the same
\* second returned the same id, and a call in the next second another one.
C9_Witness ==
    /\ \E a, b \in issued :
          /\ a.email = "ann@x.io" /\ b.email = "ann@x.io"
          /\ a.at.microsecond # b.at.microsecond
          /\ SameSecond(a.at, b.at)
          /\ a.id = b.id
    /\ \E a, b \in issued :
          /\ a.email = b.email
          /\ ~SameSecond(a.at, b.at)
          /\ a.id # b.id

\* C10: generate_candidate_id returns an id for every profile, and when the
\* email is unset the digest part is that of the empty string.
C10_IdForEveryProfile ==
    /\ st_ret.op = "generate_candidate_id" => st_ret.status = "ok"
    /\ \A r \in issued : r.email = "" => SubSeq(r.id, 6, 13) = Prefix(Sha256Hex8(""), 8)

(***************************************************************************)
(* Claims about extract_tech_stack, checked under SpecTech.                *)
(***************************************************************************)
AllKeywords ==
    UNION {{tech_keywords[c].keywords[k] : k \in 1..Len(tech_keywords[c].keywords)} :
           c \in 1..Len(tech_keywords)}

\* C19: extract_tech_stack returns exactly the taxonomy keywords, of any
\* category, that occur as a substring of the lowercased text (no word boundary
\* is required), as a list in strictly ascending order, hence sorted and
\* without duplicates; the entries are the keyword strings of the taxonomy.
C19_SortedCanonicalKeywords ==
    "tech_stack" \in fld_done =>
        /\ \A i \in 1..Len(fld_tech), j \in 1..Len(fld_tech) :
               i < j => StrLess(fld_tech[i], fld_tech[j])
        /\ {fld_tech[i] : i \in 1..Len(fld_tech)}
               = {kw \in AllKeywords : Contains(Lower(fld_text), kw)}

\* "JavaScript " holds java and javascript, the spec's example holds python and
\* react in other casing, "Django" holds django and go
C19_Witness ==
    /\ "tech_stack" \in fld_done
    /\ \/ fld_text = "JavaScript " /\ fld_tech = <<"java", "javascript">>
       \/ fld_text = "I use Python and react daily" /\ fld_tech = <<"python", "react">>
       \/ fld_text = "Django" /\ fld_tech = <<"django", "go">>

(***************************************************************************)
(* Claims about categorize_tech_stack, checked under SpecCat.              *)
(***************************************************************************)
\* the position in the taxonomy of the first category whose keywords hold x, or 0
FirstHolder(x) ==
    IF \E c \in 1..Len(TECH_CATEGORIES) : InList(x, TECH_CATEGORIES[c].keywords)
    THEN CHOOSE c \in 1..Len(TECH_CATEGORIES) :
             /\ InList(x, TECH_CATEGORIES[c].keywords)
             /\ \A b \in 1..(c - 1) : ~InList(x, TECH_CATEGORIES[b].keywords)
    ELSE 0

\* C20: the list categorize_tech_stack returns for a category holds, in input
\* order and as written, exactly the input entries whose lowercased form is in
\* that category's keywords and in no earlier category's; so an entry is in
\* at most one list, an entry matching no category is in none, and the
\* caller's list is as it was.
C20_FirstCategoryClaims ==
    cat_ret.op = "categorize_tech_stack" =>
        /\ DOMAIN cat_ret.value = CategoryNames
        /\ \A c \in 1..Len(TECH_CATEGORIES) :
               cat_ret.value[TECH_CATEGORIES[c].category]
                   = SelectSeq(cat_arg, LAMBDA tech : FirstHolder(Lower(tech)) = c)
        /\ cat_stack = cat_arg

\* an entry in other casing is claimed as written, an unknown entry by nobody
C20_Witness ==
    /\ cat_ret.op = "categorize_tech_stack"
    /\ cat_arg = <<"Python", "Cobol">>
    /\ cat_ret.value["languages"] = <<"Python">>
    /\ \A category \in CategoryNames \ {"languages"} : cat_ret.value[category] = <<>>
    /\ cat_stack = <<"Python", "Cobol">>

C16_PhoneFormat ==
    (Anonymized /\ dpm_ret.status = "ok" /\ "phone" \in DOMAIN dpm_arg) =>
        LET digits == OnlyDigits(dpm_arg["phone"])
            n == Len(digits)
        IN  /\ n > 10 =>
                 dpm_ret.value["phone"]
                     = "+" \o SubSeq(digits, 1, n - 10) \o "-XXX-"
                           \o SubSeq(Sha256Hex8(SubSeq(digits, n - 9, n)), 1, 6)
            /\ n <= 10 =>
                 dpm_ret.value["phone"] = "XXX-" \o SubSeq(Sha256Hex8(digits), 1, 6)

\* a number of 12 digits, one of exactly 10 or one without digits was anonymized
C16_Witness ==
    /\ Anonymized
    /\ dpm_ret.status = "ok"
    /\ "phone" \in DOMAIN dpm_arg
    /\ \/ dpm_arg["phone"] = "+44 20 7123 4567" /\ dpm_ret.value["phone"] = "+44-XXX-c4322f"
       \/ dpm_arg["phone"] = "555-123-4567" /\ dpm_ret.value["phone"] = "XXX-3c9527"
       \/ dpm_arg["phone"] = "" /\ dpm_ret.value["phone"] = "XXX-e3b0c4"

\* C17: the anonymized full name is built from the whitespace-separated tokens
\* of the input: with two or more it is the first token's initial, ., the 4-hex
\* digest of the middle tokens joined by a space, ., the last token's initial
\* and .; with exactly one token it is the 8-hex digest of that token.
C17_NameFormat ==
    (Anonymized /\ dpm_ret.status = "ok" /\ "full_name" \in DOMAIN dpm_arg) =>
        LET parts == SplitWs(dpm_arg["full_name"])
            n == Len(parts)
        IN  /\ n >= 2 =>
                 dpm_ret.value["full_name"]
                     = Char(parts[1], 1) \o "."
                         \o SubSeq(Sha256Hex8(JoinSpace(SubSeq(parts, 2, n - 1))), 1, 4)
                         \o "." \o Char(parts[n], 1) \o "."
            /\ n = 1 =>
                 dpm_ret.value["full_name"] = SubSeq(Sha256Hex8(parts[1]), 1, 8)

\* C18: the anonymized email of a set email is the 8-hex digest of what stands
\* before the @, the @, and what stands after the @ as written: the domain of
\* the result is the domain of the input.
C18_EmailDomainKept ==
    (Anonymized /\ dpm_ret.status = "ok" /\ "email" \in DOMAIN dpm_arg) =>
        LET at == FindFrom(dpm_arg["email"], {"@"}, 1)
            email == dpm_arg["email"]
            result == dpm_ret.value["email"]
        IN  /\ at > 0
            /\ result = SubSeq(Sha256Hex8(SubSeq(email, 1, at - 1)), 1, 8)
                            \o SubSeq(email, at, Len(email))
            /\ SubSeq(result, 10, Len(result)) = SubSeq(email, at + 1, Len(email))

\* an email whose domain has a capital letter was anonymized
C18_Witness ==
    /\ Anonymized
    /\ dpm_ret.status = "ok"
    /\ "email" \in DOMAIN dpm_arg
    /\ dpm_arg["email"] = "ann@Y.org"
    /\ dpm_ret.value["email"] = "49915e0d@Y.org"

(***************************************************************************)
(* Claims about failing writes, checked under SpecStore.                   *)
(***************************************************************************)
\* C14: when the write of a candidate record fails (open or json.dump raises),
\* the save operation, save_anonymized_data or save_candidate_data, ends by
\* raising to its caller.
C14_WriteFailureReported ==
    (st_ret.op \in {"save_anonymized_data", "save_candidate_data"} /\ st_ret.value = "OSError")
        => st_ret.status = "raised"

(***************************************************************************)
(* Claims about the candidate profile the pages build, checked under       *)
(* SpecUpload.                                                             *)
(***************************************************************************)
NoDuplicates(stack) ==
    \A i \in 1..Len(stack), j \in 1..Len(stack) : i # j => stack[i] # stack[j]

AllLowercase(stack) == \A i \in 1..Len(stack) : Lower(stack[i]) = stack[i]

TechStackOk(profile) ==
    "tech_stack" \in DOMAIN profile =>
        NoDuplicates(profile["tech_stack"]) /\ AllLowercase(profile["tech_stack"])

\* C11: the tech_stack of the profile parse_resume returned and of the
\* candidate_info the session holds, whether it came from extract_tech_stack,
\* the review widgets or the manual form, has no entry twice and only
\* lowercase entries.
C11_TechStackLowercaseNoDuplicates ==
    TechStackOk(resume_data) /\ TechStackOk(candidate_info)

\* a text field holds a placeholder: the empty string, or None cast to str
Placeholder(v) == v = "" \/ v = "None"

\* C12: no text field of the profile parse_resume returned, or of the
\* candidate_info built from it, holds a placeholder for a value that was not
\* found: such a field is None or not there.
C12_NotFoundIsUnset ==
    /\ \A key \in TextKeys \cap DOMAIN resume_data : ~Placeholder(resume_data[key])
    /\ \A key \in TextKeys \cap DOMAIN candidate_info : ~Placeholder(candidate_info[key])

\* C13: when the text extraction has raised, parse_resume raises to the upload
\* page without running an extraction strategy again and without returning a
\* profile, and the page reports the error and leaves candidate_info as it was.
C13_ExtractionFailurePropagates ==
    [][ /\ (app_pc = "extract_pdf" /\ pdf_pc = "raised") =>
               /\ pdf_pc' = "idle"
               /\ app_pc' = "extracted"
               /\ app_text' = Raised("Failed to extract text from PDF")
               /\ candidate_info' = candidate_info
        /\ (app_pc = "extracted" /\ app_text.status = "raised") =>
               /\ pdf_pc' = "idle"
               /\ app_pc' = "idle"
               /\ resume_data' = NoProfile
               /\ candidate_info' = candidate_info
               /\ app_errors' = {"Error processing resume: Failed to parse resume: "
                                     \o app_text.value} ]_vars

\* the upload of a PDF failed while the session held the fields of the manual form
C13_Witness ==
    /\ app_pc = "idle"
    /\ "Error processing resume: Failed to parse resume: Failed to extract text from PDF"
           \in app_errors
    /\ resume_data = NoProfile
    /\ "full_name" \in DOMAIN candidate_info
    /\ candidate_info["full_name"] = "Ann Lee"

(***************************************************************************)
(* Claims about the text the PDF fallback returns, checked under SpecPdf.  *)
(***************************************************************************)
RECURSIVE SecondaryTextFrom(_, _)
SecondaryTextFrom(pages, i) ==
    IF i > Len(pages) THEN "" ELSE OrEmpty(pages[i]) \o SecondaryTextFrom(pages, i + 1)

\* C23: whenever the fallback was used and extract_text_from_pdf returned, the
\* returned text is the concatenation, in page order, of the page texts of the
\* secondary strategy (a page without text adding nothing) and holds nothing
\* the primary strategy produced.
C23_FallbackTextIsSecondaryOnly ==
    (pdf_pc = "returned" /\ pdf_secondary = "ok")
        => pdf_result = SecondaryTextFrom(pdf_doc.plumber_pages, 1)

(***************************************************************************)
(* Claims about extract_years_experience, checked under SpecYears.         *)
(***************************************************************************)
\* what the k-th pattern captures in the lowercased text, or None
Captured(k) == ExpSearch(exp_patterns[k], Lower(fld_text))

\* C21: extract_years_experience returns the integer captured by the first of
\* its three patterns, in the order of the list, that matches the lowercased
\* text, whatever a later pattern captures; when no pattern matches it returns
\* None; it never raises.  "5+ years of experience" gives 5 and
\* "10 yrs in the field" gives 10.
C21_FirstParsablePatternWins ==
    "years_experience" \in fld_done =>
        /\ fld_years # NoneInt =>
               \E k \in 1..Len(exp_patterns) :
                   /\ Captured(k) # None
                   /\ OnlyDigits(Captured(k)) = Captured(k)
                   /\ fld_years = ToNat(Captured(k))
                   /\ \A j \in 1..(k - 1) : Captured(j) = None
        /\ fld_years = NoneInt => \A k \in 1..Len(exp_patterns) : Captured(k) = None
        /\ fld_text = "5+ years of experience" => fld_years = 5
        /\ fld_text = "10 yrs in the field" => fld_years = 10

\* C21 witness: the second pattern matches earlier in the text, the first
\* pattern matches later and wins.
C21_Witness ==
    /\ "years_experience" \in fld_done
    /\ fld_text = "Experience: 3 yrs, 5+ years of experience"
    /\ Captured(1) = "5"
    /\ Captured(2) = "3"
    /\ fld_years = 5

(***************************************************************************)
(* Claims about extract_text_from_docx, checked under SpecUpload.          *)
(***************************************************************************)
\* C22: for an uploaded DOCX, the extraction returns the texts of all its
\* paragraphs joined by newlines in document order when python-docx raises
\* nowhere; when it raises, on opening or at any paragraph, the extraction
\* raises "Failed to extract text from DOCX" and returns no text, not even
\* that of the paragraphs already read.
C22_DocxJoinedOrExtractionError ==
    (app_pc = "extracted" /\ app_docx.file_type = "docx") =>
        /\ app_docx.fail = 0 =>
               /\ app_text = Returned(JoinLinesFrom(app_docx.paragraphs, 1))
               /\ app_docx.paragraphs = <<"Ann Lee", "Java developer">>
                      => app_text.value = "Ann Lee\nJava developer"
               /\ app_docx.paragraphs = <<>> => app_text.value = ""
        /\ app_docx.fail # 0 =>
               app_text = Raised("Failed to extract text from DOCX")

\* C22 witness: the second paragraph of a DOCX could not be read and the
\* extraction raised, the first paragraph notwithstanding.
C22_Witness ==
    /\ app_pc = "extracted"
    /\ app_docx.paragraphs = <<"Ann Lee", "Java developer">>
    /\ app_docx.fail = 2
    /\ app_text = Raised("Failed to extract text from DOCX")

(***************************************************************************)
(* Claims about the two copies of the tech taxonomy, checked under         *)
(* SpecTaxonomy.                                                           *)
(***************************************************************************)
\* the number of positions at which entry stands in list
Occurrences(entry, list) == Cardinality({i \in 1..Len(list) : list[i] = entry})

\* the number of positions of all the categorized lists at which entry stands
Placements(entry) ==
    Cardinality({<<category, i>> \in CategoryNames \X (1..Len(fld_tech)) :
                    /\ i <= Len(cat_ret.value[category])
                    /\ cat_ret.value[category][i] = entry})

\* the length of all the categorized lists together
CategorizedCount ==
    Cardinality({<<category, i>> \in CategoryNames \X (1..Len(fld_tech)) :
                    i <= Len(cat_ret.value[category])})

\* C29: for every text, categorize_tech_stack places every entry of
\* extract_tech_stack(text) in exactly one category, once, and the categorized
\* lists together hold exactly the extracted entries: none is omitted, none
\* repeated, nothing else is there.
C29_TaxonomiesAgree ==
    cat_ret.op = "categorize_tech_stack" =>
        /\ \A i \in 1..Len(fld_tech) : Placements(fld_tech[i]) = 1
        /\ \A category \in CategoryNames :
               /\ Len(cat_ret.value[category]) <= Len(fld_tech)
               /\ \A i \in 1..Len(cat_ret.value[category]) :
                      Occurrences(cat_ret.value[category][i], fld_tech) = 1
        /\ CategorizedCount = Len(fld_tech)

\* C29 witness: the text names technologies of two categories ("javascript"
\* holds "java" as a substring), and each extracted entry is in its category.
C29_Witness ==
    /\ cat_ret.op = "categorize_tech_stack"
    /\ fld_text = "JavaScript Django"
    /\ fld_tech = <<"django", "go", "java", "javascript">>
    /\ cat_ret.value["languages"] = <<"go", "java", "javascript">>
    /\ cat_ret.value["frameworks"] = <<"django">>

(***************************************************************************)
(* Claims about query_model, checked under SpecQuery.                      *)
(***************************************************************************)
\* C24: query_model calls Ollama first; it calls Hugging Face only when the
\* Ollama call raised (an exception of requests or any other), after it and
\* once; it never raises; it returns Ollama's response when Ollama returned,
\* else Hugging Face's response when Hugging Face returned, else the apology.
C24_OllamaThenHuggingFaceOnce ==
    qm_ret.status # "none" =>
        /\ qm_ret.status = "ok"
        /\ qm_ret.calls[1] = "ollama"
        /\ \A i \in 2..Len(qm_ret.calls) : qm_ret.calls[i] # "ollama"
        /\ Cardinality({i \in 1..Len(qm_ret.calls) : qm_ret.calls[i] = "huggingface"})
               = (IF qm_backends.ollama.status = "raised" THEN 1 ELSE 0)
        /\ qm_backends.ollama.status = "ok" => qm_ret.value = qm_backends.ollama.value
        /\ (qm_backends.ollama.status = "raised" /\ qm_backends.huggingface.status = "ok")
               => qm_ret.value = qm_backends.huggingface.value
        /\ (qm_backends.ollama.status = "raised" /\ qm_backends.huggingface.status = "raised")
               => qm_ret.value = "I apologize, but I'm currently unable to connect to the AI models. Please try again later."

\* C24 witness: Ollama raised an exception that is not one of requests, then
\* Hugging Face was queried and answered.
C24_Witness ==
    /\ qm_ret.status = "ok"
    /\ qm_backends.ollama = Raised("AttributeError")
    /\ qm_ret.calls = <<"ollama", "huggingface">>
    /\ qm_ret.value = "Tell me more."

(***************************************************************************)
(* Claims about the session, checked under SpecUpload (the forms) and      *)
(* SpecChat (the conversation).                                            *)
(***************************************************************************)
\* info holds a non-empty text for key
HasText(info, key) == key \in DOMAIN info /\ info[key] \notin {None, ""}

\* C25: in every state of the session, conversation_started is set only if
\* candidate_info holds all seven fields: non-empty full_name, email, phone,
\* desired_position and current_location, an integer years_experience and a
\* non-empty tech_stack list, whether the manual form or the upload page set it.
C25_StartedOnlyWithAllSeven ==
    conversation_started =>
        /\ \A key \in TextKeys : HasText(candidate_info, key)
        /\ "years_experience" \in DOMAIN candidate_info
        /\ candidate_info["years_experience"] # NoneInt
        /\ "tech_stack" \in DOMAIN candidate_info
        /\ candidate_info["tech_stack"] # <<>>

\* the words check_exit accepts
ExitWords == {"exit", "quit", "bye", "goodbye", "end"}

IsExitCommand(prompt) == Strip(Lower(prompt)) \in ExitWords

\* C26: in the run that handles a chat message which, lowercased and trimmed,
\* is one of exit, quit, bye, goodbye, end, the message and then the farewell
\* are appended to the conversation, query_model is not called and no file of
\* the candidates directory is written; for any other message query_model is
\* called and no farewell is appended.  " Bye " is an exit, "exit now" is not.
C26_ExitAppendsFarewellOnly ==
    [][ chat_prompt' # None =>
            /\ IsExitCommand(" Bye ") /\ ~IsExitCommand("exit now")
            /\ Len(messages') > Len(messages)
            /\ messages'[Len(messages) + 1] = Message("user", chat_prompt')
            /\ IsExitCommand(chat_prompt') =>
                   /\ messages' = messages \o <<Message("user", chat_prompt'),
                                                Message("assistant", Farewell)>>
                   /\ queries' = queries
                   /\ files' = files
                   /\ run_end' = "stopped"
            /\ ~IsExitCommand(chat_prompt') =>
                   /\ queries' = queries + 1
                   /\ run_end' # "stopped"
                   /\ \A i \in (Len(messages) + 1)..Len(messages') :
                          messages'[i].content # Farewell ]_vars

\* C26 witness: "Bye" with blanks around it ended a conversation of a candidate
\* whose profile is complete, and the candidates directory is still empty.
C26_Witness ==
    /\ chat_prompt = " Bye "
    /\ run_end = "stopped"
    /\ Len(messages) >= 2
    /\ messages[Len(messages) - 1] = Message("user", " Bye ")
    /\ messages[Len(messages)] = Message("assistant", Farewell)
    /\ Cardinality(DOMAIN candidate_info) >= 6
    /\ queries = 1
    /\ DOMAIN files = {}

\* the texts of the user messages among the first n messages, in order
RECURSIVE UserTextsUpTo(_, _)
UserTextsUpTo(msgs, n) ==
    IF n = 0 THEN <<>>
    ELSE IF msgs[n].role = "user"
    THEN Append(UserTextsUpTo(msgs, n - 1), msgs[n].content)
    ELSE UserTextsUpTo(msgs, n - 1)

\* C27: after any sequence of chat turns and reruns, sentiment_history holds
\* one entry per user message of the conversation, in conversation order, and
\* none for an assistant message.  Checked in the form that lets the messages
\* of the last run be not yet analysed: sentiment_history is an initial part
\* of the texts of the user messages, so no message has two entries.
C27_OneEntryPerUserMessage ==
    /\ Len(sentiment_history) <= Len(UserTextsUpTo(messages, Len(messages)))
    /\ sentiment_history
           = SubSeq(UserTextsUpTo(messages, Len(messages)), 1, Len(sentiment_history))

\* C28: after a chat turn with a message that is not an exit command, the last
\* message of the conversation is the assistant's and its content is the whole
\* text query_model returned for that message.
C28_ReplyIsWholeResponse ==
    (chat_prompt # None /\ ~IsExitCommand(chat_prompt) /\ chat_response # None) =>
        messages[Len(messages)] = Message("assistant", chat_response)

====
